---- MODULE Spec2Model ----
(***************************************************************************)
(* Model of src/googleDocsApiHelpers.ts: the index-resolution helpers      *)
(* (findTextRange, getParagraphRange, getTableCellRange) and the           *)
(* multi-phase mutation operations (detectAndFormatLists, editTableCell,   *)
(* createTableWithData) running against a remote document.                 *)
(*                                                                         *)
(* The remote document is a flat sequence of tokens, one per document      *)
(* index: text characters (with a bold flag), paragraph-terminating        *)
(* newlines, and the structural markers that consume an index each         *)
(* (section break, table start, row start, cell start, table end, inline   *)
(* object).  FetchDocument renders the token sequence as the content tree  *)
(* the helpers walk.                                                       *)
(***************************************************************************)
EXTENDS Integers, Sequences, FiniteSets, TLC

VARIABLES
    doc,      \* the remote document: Seq of tokens, index i is doc[i+1]
    doc0,     \* the document when the operation started
    honour,   \* whether the remote service honours the fields mask of a get
    pc,       \* position of the running operation
    op,       \* the operation and its arguments
    tree,     \* body.content of the last documents.get response
    loc,      \* the operation's local variables that live across awaits
    pending,  \* requests of the batchUpdate call in flight
    log,      \* remote calls issued so far, in order
    ret       \* what the operation returned or threw

vars == <<doc, doc0, honour, pc, op, tree, loc, pending, log, ret>>

----------------------------------------------------------------------------
(* Generic helpers *)

Undef == -1

NL == "\n"

Min(a, b) == IF a <= b THEN a ELSE b

Max(a, b) == IF a >= b THEN a ELSE b

RECURSIVE Concat(_)
Concat(ss) == IF ss = <<>> THEN <<>> ELSE Head(ss) \o Concat(Tail(ss))

SeqsUpTo(S, n) == UNION {[1..m -> S] : m \in 0..n}

Last(s) == s[Len(s)]

Elements(s) == {s[i] : i \in 1..Len(s)}

----------------------------------------------------------------------------
(* The remote document and its rendering as a content tree *)

\* A token: its character or marker c, whether its text is bold (b), and, on a
\* paragraph's newline, the paragraph's list preset (l, "" for none) and
\* whether a paragraph style was applied (a).
Tok(c) == [c |-> c, b |-> FALSE, l |-> "", a |-> FALSE]

BoldTok(c) == [c |-> c, b |-> TRUE, l |-> "", a |-> FALSE]

Marks == {"<S>", "<T>", "<R>", "<C>", "</T>"}

IsMark(t) == t.c \in Marks

IsObj(t) == t.c = "<O>"

IsChar(t) == ~IsMark(t) /\ ~IsObj(t)

Txt(s) == [i \in 1..Len(s) |-> Tok(s[i])]

BoldTxt(s) == [i \in 1..Len(s) |-> BoldTok(s[i])]

Chars(toks) == [i \in 1..Len(toks) |-> toks[i].c]

\* A paragraph: its text and the newline that ends it.
Para(s) == Txt(s) \o <<Tok(NL)>>

Cell(blocks) == <<Tok("<C>")>> \o Concat(blocks)

Row(cells) == <<Tok("<R>")>> \o Concat(cells)

Table(rows) == <<Tok("<T>")>> \o Concat(rows) \o <<Tok("</T>")>>

Body(blocks) == <<Tok("<S>")>> \o Concat(blocks)

\* An index that is 0 is left out of the JSON response.
Idx(i) == IF i = 0 THEN Undef ELSE i

NoElems == <<>>

ParaEl(s, e, els) ==
    [kind |-> "para", startIndex |-> Idx(s), endIndex |-> e,
     elements |-> els, tableRows |-> <<>>]

TableEl(s, e, rows) ==
    [kind |-> "table", startIndex |-> Idx(s), endIndex |-> e,
     elements |-> NoElems, tableRows |-> rows]

SectEl(s, e) ==
    [kind |-> "sect", startIndex |-> Idx(s), endIndex |-> e,
     elements |-> NoElems, tableRows |-> <<>>]

\* Last position q >= p of the run of d that starts at position p: an inline
\* object alone, or the characters up to a change of style, an inline object
\* or the paragraph's end at position last.
RECURSIVE RunEnd(_, _, _)
RunEnd(d, p, last) ==
    IF IsObj(d[p]) \/ p = last THEN p
    ELSE IF IsObj(d[p + 1]) \/ d[p + 1].b # d[p].b THEN p
    ELSE RunEnd(d, p + 1, last)

\* The paragraph elements of positions p..last; an inline object carries no
\* textRun (content <<>>).
RECURSIVE Runs(_, _, _)
Runs(d, p, last) ==
    IF p > last THEN <<>>
    ELSE LET q == RunEnd(d, p, last)
             el == [startIndex |-> Idx(p - 1), endIndex |-> q,
                    content |-> IF IsObj(d[p]) THEN <<>>
                                ELSE Chars(SubSeq(d, p, q))]
         IN  <<el>> \o Runs(d, q + 1, last)

\* Position of the newline ending the paragraph that holds position p.
RECURSIVE ParaEnd(_, _)
ParaEnd(d, p) == IF d[p].c = NL THEN p ELSE ParaEnd(d, p + 1)

RECURSIVE ParseContent(_, _)
RECURSIVE ParseRows(_, _)
RECURSIVE ParseCells(_, _)

\* The content list that starts at position p: [els, next], next being the
\* position of the token that ends the list.
ParseContent(d, p) ==
    IF p > Len(d) \/ d[p].c \in {"<C>", "<R>", "</T>"} THEN
        [els |-> <<>>, next |-> p]
    ELSE IF d[p].c = "<S>" THEN
        LET rest == ParseContent(d, p + 1)
        IN  [els |-> <<SectEl(p - 1, p)>> \o rest.els, next |-> rest.next]
    ELSE IF d[p].c = "<T>" THEN
        LET rows == ParseRows(d, p + 1)
            rest == ParseContent(d, rows.next + 1)
        IN  [els |-> <<TableEl(p - 1, rows.next, rows.els)>> \o rest.els,
             next |-> rest.next]
    ELSE
        LET q    == ParaEnd(d, p)
            rest == ParseContent(d, q + 1)
        IN  [els |-> <<ParaEl(p - 1, q, Runs(d, p, q))>> \o rest.els,
             next |-> rest.next]

\* The rows that start at position p; next is the position of the table end.
ParseRows(d, p) ==
    IF d[p].c = "</T>" THEN [els |-> <<>>, next |-> p]
    ELSE LET cells == ParseCells(d, p + 1)
             rest  == ParseRows(d, cells.next)
             row   == [startIndex |-> p - 1, endIndex |-> cells.next - 1,
                       tableCells |-> cells.els]
         IN  [els |-> <<row>> \o rest.els, next |-> rest.next]

ParseCells(d, p) ==
    IF d[p].c \in {"<R>", "</T>"} THEN [els |-> <<>>, next |-> p]
    ELSE LET inner == ParseContent(d, p + 1)
             rest  == ParseCells(d, inner.next)
             cell  == [startIndex |-> p - 1, endIndex |-> inner.next - 1,
                       content |-> inner.els]
         IN  [els |-> <<cell>> \o rest.els, next |-> rest.next]

\* body.content of documents.get for document d.
FetchDocument(d) == ParseContent(d, 1).els

----------------------------------------------------------------------------
(* batchUpdate on the remote document: the requests applied in list order,
   each seeing the effect of the ones before it, all or nothing *)

InsertTextReq(index, text) == [type |-> "insertText", index |-> index, text |-> text]

DeleteReq(s, e) == [type |-> "deleteContentRange", startIndex |-> s, endIndex |-> e]

InsertImageReq(index, uri, sized) ==
    [type |-> "insertInlineImage", index |-> index, uri |-> uri, sized |-> sized]

InsertTableReq(index, rows, columns) ==
    [type |-> "insertTable", index |-> index, rows |-> rows, columns |-> columns]

BulletsReq(s, e, preset) ==
    [type |-> "createParagraphBullets", startIndex |-> s, endIndex |-> e,
     bulletPreset |-> preset]

TextStyleReq(s, e, fields) ==
    [type |-> "updateTextStyle", startIndex |-> s, endIndex |-> e, fields |-> fields]

ParagraphStyleReq(s, e, fields) ==
    [type |-> "updateParagraphStyle", startIndex |-> s, endIndex |-> e,
     fields |-> fields]

\* An index inside a paragraph: a text can be inserted there.
InParagraph(d, i) == i >= 1 /\ i < Len(d) /\ ~IsMark(d[i + 1])

InsertAt(d, i, toks) == SubSeq(d, 1, i) \o toks \o SubSeq(d, i + 1, Len(d))

RemoveRange(d, s, e) == SubSeq(d, 1, s) \o SubSeq(d, e + 1, Len(d))

\* A newline that must stay: the last of a cell or of the body, or the one
\* before a table.
StructuralNewline(d, p) ==
    d[p].c = NL /\ (p = Len(d) \/ IsMark(d[p + 1]))

ValidRange(d, s, e) == s >= 1 /\ s < e /\ e <= Len(d)

DeleteAllowed(d, s, e) ==
    /\ ValidRange(d, s, e)
    /\ \A p \in (s + 1)..e : ~IsMark(d[p]) /\ ~StructuralNewline(d, p)

EmptyTable(rows, columns) ==
    Table([r \in 1..rows |-> Row([c \in 1..columns |-> Cell(<<Para(<<>>)>>)])])

\* Index at which the paragraph ending with the newline at position q starts.
ParagraphStartOf(d, q) ==
    LET before == {p \in 1..(q - 1) : IsMark(d[p]) \/ d[p].c = NL}
    IN  IF before = {} THEN 0
        ELSE CHOOSE p \in before : \A x \in before : x <= p

\* Positions of the newlines of the paragraphs that overlap [s, e).
ParagraphsIn(d, s, e) ==
    {q \in 1..Len(d) : d[q].c = NL /\ ParagraphStartOf(d, q) < e /\ q > s}

ApplyRequest(d, r) ==
    IF r.type = "insertText" THEN
        IF InParagraph(d, r.index) /\ r.text # <<>>
        THEN [ok |-> TRUE, doc |-> InsertAt(d, r.index, Txt(r.text))]
        ELSE [ok |-> FALSE, doc |-> d]
    ELSE IF r.type = "deleteContentRange" THEN
        IF DeleteAllowed(d, r.startIndex, r.endIndex)
        THEN [ok |-> TRUE, doc |-> RemoveRange(d, r.startIndex, r.endIndex)]
        ELSE [ok |-> FALSE, doc |-> d]
    ELSE IF r.type = "insertTable" THEN
        IF InParagraph(d, r.index) /\ r.rows >= 1 /\ r.columns >= 1
        THEN [ok |-> TRUE,
              doc |-> InsertAt(d, r.index,
                               <<Tok(NL)>> \o EmptyTable(r.rows, r.columns))]
        ELSE [ok |-> FALSE, doc |-> d]
    ELSE IF r.type = "insertInlineImage" THEN
        IF InParagraph(d, r.index)
        THEN [ok |-> TRUE, doc |-> InsertAt(d, r.index, <<Tok("<O>")>>)]
        ELSE [ok |-> FALSE, doc |-> d]
    ELSE IF ~ValidRange(d, r.startIndex, r.endIndex) THEN [ok |-> FALSE, doc |-> d]
    ELSE IF r.type = "createParagraphBullets" THEN
        LET qs == ParagraphsIn(d, r.startIndex, r.endIndex)
        IN  [ok |-> TRUE,
             doc |-> [p \in 1..Len(d) |->
                         IF p \in qs THEN [d[p] EXCEPT !.l = r.bulletPreset]
                         ELSE d[p]]]
    ELSE IF r.type = "updateTextStyle" THEN
        [ok |-> TRUE,
         doc |-> [p \in 1..Len(d) |->
                     IF /\ p > r.startIndex /\ p <= r.endIndex
                        /\ IsChar(d[p]) /\ "bold" \in r.fields
                     THEN [d[p] EXCEPT !.b = TRUE] ELSE d[p]]]
    ELSE
        LET qs == ParagraphsIn(d, r.startIndex, r.endIndex)
        IN  [ok |-> TRUE,
             doc |-> [p \in 1..Len(d) |->
                         IF p \in qs THEN [d[p] EXCEPT !.a = TRUE] ELSE d[p]]]

\* ApplyMutations: [ok, doc]; a batch with an invalid request changes nothing.
RECURSIVE ApplySequence(_, _)
ApplySequence(d, reqs) ==
    IF reqs = <<>> THEN [ok |-> TRUE, doc |-> d]
    ELSE LET one == ApplyRequest(d, Head(reqs))
         IN  IF one.ok THEN ApplySequence(one.doc, Tail(reqs))
             ELSE [ok |-> FALSE, doc |-> d]

ApplyMutations(d, reqs) ==
    LET all == ApplySequence(d, reqs)
    IN  IF all.ok THEN all ELSE [ok |-> FALSE, doc |-> d]

----------------------------------------------------------------------------
(* findTextRange *)

NoRange == [found |-> FALSE, startIndex |-> Undef, endIndex |-> Undef]

Range(s, e) == [found |-> TRUE, startIndex |-> s, endIndex |-> e]

\* The segments of one paragraph's elements: runs without text or without
\* indices are skipped.
RECURSIVE ParagraphSegments(_)
ParagraphSegments(els) ==
    IF els = <<>> THEN <<>>
    ELSE LET pe == Head(els)
         IN  (IF pe.content # <<>> /\ pe.startIndex # Undef /\ pe.endIndex # Undef
              THEN <<[text |-> pe.content, start |-> pe.startIndex, end |-> pe.endIndex]>>
              ELSE <<>>) \o ParagraphSegments(Tail(els))

RECURSIVE collectTextFromContent(_)
RECURSIVE collectTextFromRows(_)
RECURSIVE collectTextFromCells(_)

\* Segments in the order the walk pushes them (the order fullText is built in).
collectTextFromContent(content) ==
    IF content = <<>> THEN <<>>
    ELSE LET element == Head(content)
         IN  (IF element.kind = "para" THEN ParagraphSegments(element.elements)
              ELSE <<>>)
             \o (IF element.kind = "table" THEN collectTextFromRows(element.tableRows)
                 ELSE <<>>)
             \o collectTextFromContent(Tail(content))

collectTextFromRows(rows) ==
    IF rows = <<>> THEN <<>>
    ELSE collectTextFromCells(Head(rows).tableCells) \o collectTextFromRows(Tail(rows))

collectTextFromCells(cells) ==
    IF cells = <<>> THEN <<>>
    ELSE collectTextFromContent(Head(cells).content) \o collectTextFromCells(Tail(cells))

\* The comparator reversed: (a, b) => b.start - a.start.
InsertByStartDescending(sorted, s) ==
    LET k == Cardinality({i \in 1..Len(sorted) : sorted[i].start >= s.start})
    IN  SubSeq(sorted, 1, k) \o <<s>> \o SubSeq(sorted, k + 1, Len(sorted))

\* segments.sort((a, b) => a.start - b.start): a stable sort.
InsertByStart(sorted, s) ==
    LET k == Cardinality({i \in 1..Len(sorted) : sorted[i].start <= s.start})
    IN  SubSeq(sorted, 1, k) \o <<s>> \o SubSeq(sorted, k + 1, Len(sorted))

RECURSIVE SortSegments(_)
SortSegments(segs) ==
    IF segs = <<>> THEN <<>>
    ELSE InsertByStart(SortSegments(SubSeq(segs, 1, Len(segs) - 1)), Last(segs))

FullText(segs) == Concat([i \in 1..Len(segs) |-> segs[i].text])

MatchesAt(text, needle, i) ==
    /\ i >= 0
    /\ i + Len(needle) <= Len(text)
    /\ \A j \in 1..Len(needle) : text[i + j] = needle[j]

\* String.prototype.indexOf(needle, from): 0-based position or -1.
IndexOf(text, needle, from) ==
    LET hits == {i \in from..Len(text) : MatchesAt(text, needle, i)}
    IN  IF hits = {} THEN -1
        ELSE CHOOSE i \in hits : \A j \in hits : i <= j

\* The mapping with the segment's position in fullText not subtracted.
RECURSIVE MapToIndicesNoBase(_, _, _, _, _, _)
MapToIndicesNoBase(segs, i, pos, tS, tE, startIndex) ==
    IF i > Len(segs) THEN [startIndex |-> startIndex, endIndex |-> -1]
    ELSE LET seg    == segs[i]
             segEnd == pos + Len(seg.text)
             st     == IF startIndex = -1 /\ tS >= pos /\ tS < segEnd
                       THEN seg.start + tS ELSE startIndex
         IN  IF tE > pos /\ tE <= segEnd
             THEN [startIndex |-> st, endIndex |-> seg.start + tE]
             ELSE MapToIndicesNoBase(segs, i + 1, segEnd, tS, tE, st)

\* The for-loop over segments mapping [tS, tE) of fullText to document
\* indices; i is the next segment, pos its position in fullText.
RECURSIVE MapToIndices(_, _, _, _, _, _)
MapToIndices(segs, i, pos, tS, tE, startIndex) ==
    IF i > Len(segs) THEN [startIndex |-> startIndex, endIndex |-> -1]
    ELSE LET seg    == segs[i]
             segEnd == pos + Len(seg.text)
             st     == IF startIndex = -1 /\ tS >= pos /\ tS < segEnd
                       THEN seg.start + (tS - pos) ELSE startIndex
         IN  IF tE > pos /\ tE <= segEnd
             THEN [startIndex |-> st, endIndex |-> seg.start + (tE - pos)]
             ELSE MapToIndices(segs, i + 1, segEnd, tS, tE, st)

\* The search resuming at the match itself.
NextSearchStartSame(currentIndex) == currentIndex

\* The search resuming two characters after the match's start.
NextSearchStartSkip(currentIndex) == currentIndex + 2

\* Where the search resumes after a match at currentIndex.
NextSearchStart(currentIndex) == currentIndex + 1

\* The while-loop: foundCount matches counted, search resuming at
\* searchStartIndex; starts lists the searchStartIndex of the iterations made
\* so far, iters counts them.
RECURSIVE SearchLoop(_, _, _, _, _, _, _)
SearchLoop(fullText, segs, textToFind, instance, foundCount, searchStartIndex, starts) ==
    IF ~(foundCount < instance)
    THEN [range |-> NoRange, iters |-> Len(starts), starts |-> starts]
    ELSE LET currentIndex == IndexOf(fullText, textToFind, searchStartIndex)
             made == Append(starts, searchStartIndex)
         IN  IF currentIndex = -1
             THEN [range |-> NoRange, iters |-> Len(made), starts |-> made]
             ELSE IF foundCount + 1 = instance THEN
                 LET m == MapToIndices(segs, 1, 0, currentIndex,
                                       currentIndex + Len(textToFind), -1)
                 IN  IF m.startIndex = -1 \/ m.endIndex = -1
                     THEN SearchLoop(fullText, segs, textToFind, instance,
                                     foundCount, currentIndex + 1, made)
                     ELSE [range |-> Range(m.startIndex, m.endIndex),
                           iters |-> Len(made), starts |-> made]
             ELSE SearchLoop(fullText, segs, textToFind, instance,
                             foundCount + 1, NextSearchStart(currentIndex), made)

\* findTextRange on a fetched body.content.
findTextRangeIn(content, textToFind, instance) ==
    LET walked   == collectTextFromContent(content)
        fullText == FullText(walked)
        segments == SortSegments(walked)
        found    == SearchLoop(fullText, segments, textToFind, instance, 0, 0, <<>>)
    IN  [range |-> found.range, iters |-> found.iters, starts |-> found.starts,
         segments |-> segments]

----------------------------------------------------------------------------
(* getParagraphRange *)

RECURSIVE findParagraphInContent(_, _)
RECURSIVE findParagraphInRows(_, _)
RECURSIVE findParagraphInCells(_, _)

\* The containment test with the end index included.
ElementContainsClosed(element, indexWithin) ==
    /\ element.startIndex # Undef
    /\ element.endIndex # Undef
    /\ indexWithin >= element.startIndex
    /\ indexWithin <= element.endIndex

\* Whether indexWithin lies in the element's range, both ends being defined.
ElementContains(element, indexWithin) ==
    /\ element.startIndex # Undef
    /\ element.endIndex # Undef
    /\ indexWithin >= element.startIndex
    /\ indexWithin < element.endIndex

findParagraphInContent(content, indexWithin) ==
    IF content = <<>> THEN NoRange
    ELSE LET element == Head(content)
             inside  == ElementContains(element, indexWithin)
             inTable == IF inside /\ element.kind = "table"
                        THEN findParagraphInRows(element.tableRows, indexWithin)
                        ELSE NoRange
         IN  IF inside /\ element.kind = "para"
             THEN Range(element.startIndex, element.endIndex)
             ELSE IF inTable.found THEN inTable
             ELSE findParagraphInContent(Tail(content), indexWithin)

findParagraphInRows(rows, indexWithin) ==
    IF rows = <<>> THEN NoRange
    ELSE LET r == findParagraphInCells(Head(rows).tableCells, indexWithin)
         IN  IF r.found THEN r ELSE findParagraphInRows(Tail(rows), indexWithin)

findParagraphInCells(cells, indexWithin) ==
    IF cells = <<>> THEN NoRange
    ELSE LET r == findParagraphInContent(Head(cells).content, indexWithin)
         IN  IF r.found THEN r ELSE findParagraphInCells(Tail(cells), indexWithin)

----------------------------------------------------------------------------
(* Remote calls *)

NoOp == [fn |-> "none"]

NoLoc == [phase |-> 0]

NoRet == [status |-> "none"]

Returned(v) == [status |-> "returned", value |-> v]

GetCall == [call |-> "get", status |-> "open", kind |-> "none", requests |-> <<>>]

\* The log when the last call is not awaited: it stays open.
CompletedNotAwaited(l, st) == l

\* The log with its last (open) call answered with status st.
Completed(l, st) == [l EXCEPT ![Len(l)].status = st]

\* The log with its last (open) call failed with the given kind.
Failed(l, kind) == [l EXCEPT ![Len(l)].status = "failed", ![Len(l)].kind = kind]

----------------------------------------------------------------------------
(* executeBatchUpdate and the failures of remote calls *)

\* How a remote call can fail whatever it carries.
TransportFailures == {"NotFound", "PermissionDenied", "Transient"}

Threw(class, kind, by) ==
    [status |-> "threw", class |-> class, kind |-> kind, by |-> by]

\* The catch block of executeBatchUpdate: what it throws for a failed call.
CatchBatchError(kind) ==
    IF kind \in {"InvalidRequest", "NotFound", "PermissionDenied"}
    THEN Threw("UserError", kind, "executeBatchUpdate")
    ELSE Threw("Error", kind, "executeBatchUpdate")

\* An error of documents.get that no handler catches.
Uncaught(kind) == Threw("ApiError", kind, "none")

BatchCall(reqs) ==
    [call |-> "batchUpdate", status |-> "open", kind |-> "none", requests |-> reqs]

GetPcs == {"find_get", "para_get", "list_get1", "list_get2", "cell_get1",
           "cell_get2", "tbl_get1", "tbl_get2", "cellrange_get", "findtable_get"}

BatchPcs == {"list_batch1", "list_batch2", "cell_batch1", "cell_batch2",
             "tbl_batch1", "tbl_batch2", "tbl_batch3", "exec_batch"}

\* The log once the open call has completed and the operation has moved to
\* position next: a get or a batchUpdate is issued there.
Issue(l, next, reqs) ==
    IF next \in GetPcs THEN Append(l, GetCall)
    ELSE IF next \in BatchPcs THEN Append(l, BatchCall(reqs))
    ELSE l

----------------------------------------------------------------------------
(* detectAndFormatLists *)

Whitespace == {" ", NL, "\t"}

\* "bullet" stands for the character U+2022.
BulletGlyphs == {"-", "*", "bullet"}

Digits == {"0", "1", "2", "3", "4", "5", "6", "7", "8", "9"}

Letters ==
    {"a", "b", "c", "d", "e", "f", "g", "h", "i", "j", "k", "l", "m", "n", "o",
     "p", "q", "r", "s", "t", "u", "v", "w", "x", "y", "z",
     "A", "B", "C", "D", "E", "F", "G", "H", "I", "J", "K", "L", "M", "N", "O",
     "P", "Q", "R", "S", "T", "U", "V", "W", "X", "Y", "Z"}

MarkerPunctuationDotOnly == {"."}

MarkerPunctuation == {".", ")"}

\* Number of consecutive characters of class S in t from position p on.
RECURSIVE RunOf(_, _, _)
RunOf(S, t, p) ==
    IF p <= Len(t) /\ t[p] \in S THEN 1 + RunOf(S, t, p + 1) ELSE 0

\* String.prototype.trimStart.
TrimStart(t) == SubSeq(t, RunOf(Whitespace, t, 1) + 1, Len(t))

\* String.prototype.trim() leaves nothing: the text is all whitespace.
IsBlank(t) == RunOf(Whitespace, t, 1) = Len(t)

HasAt(S, t, p) == p <= Len(t) /\ t[p] \in S

NoMarker == [bulletPreset |-> "", markerLength |-> 0]

\* The three tests of phase 1, first match wins; markerLength is the length of
\* the match of the same pattern with \s* for \s.
ClassifyMarker(trimmedText) ==
    LET n == RunOf(Digits, trimmedText, 1)
    IN  IF HasAt(BulletGlyphs, trimmedText, 1) /\ HasAt(Whitespace, trimmedText, 2)
        THEN [bulletPreset |-> "BULLET_DISC_CIRCLE_SQUARE",
              markerLength |-> 1 + RunOf(Whitespace, trimmedText, 2)]
        ELSE IF /\ n >= 1
                /\ HasAt(MarkerPunctuation, trimmedText, n + 1)
                /\ HasAt(Whitespace, trimmedText, n + 2)
        THEN [bulletPreset |-> "NUMBERED_DECIMAL_NESTED",
              markerLength |-> n + 1 + RunOf(Whitespace, trimmedText, n + 2)]
        ELSE IF /\ HasAt(Letters, trimmedText, 1)
                /\ HasAt(MarkerPunctuation, trimmedText, 2)
                /\ HasAt(Whitespace, trimmedText, 3)
        THEN [bulletPreset |-> "NUMBERED_UPPERALPHA_ALPHA_ROMAN",
              markerLength |-> 2 + RunOf(Whitespace, trimmedText, 3)]
        ELSE NoMarker

\* Length of the match of /^([-*.]\s*|\d+[.)]\s*|[a-zA-Z][.)]\s*)/ in phase 2,
\* or -1 without a match.
MarkerMatchLength(trimmedText) ==
    LET n == RunOf(Digits, trimmedText, 1)
    IN  IF HasAt(BulletGlyphs, trimmedText, 1)
        THEN 1 + RunOf(Whitespace, trimmedText, 2)
        ELSE IF n >= 1 /\ HasAt(MarkerPunctuation, trimmedText, n + 1)
        THEN n + 1 + RunOf(Whitespace, trimmedText, n + 2)
        ELSE IF HasAt(Letters, trimmedText, 1) /\ HasAt(MarkerPunctuation, trimmedText, 2)
        THEN 2 + RunOf(Whitespace, trimmedText, 3)
        ELSE -1

\* The response to fields 'body(content(startIndex,endIndex,paragraph(
\* elements(textRun(content)))))' of a service that honours the mask: no table,
\* no section break, no indices on paragraph elements.
MaskedForLists(content) ==
    [i \in 1..Len(content) |->
        IF content[i].kind = "para"
        THEN [content[i] EXCEPT
                 !.elements = [j \in 1..Len(content[i].elements) |->
                                  [startIndex |-> Undef, endIndex |-> Undef,
                                   content |-> content[i].elements[j].content]]]
        ELSE [content[i] EXCEPT !.kind = "none", !.tableRows = <<>>]]

FetchForLists(d, h) ==
    IF h THEN MaskedForLists(FetchDocument(d)) ELSE FetchDocument(d)

\* paragraphText of phase 1: the contents of the text runs.
ParagraphText(els) == Concat([j \in 1..Len(els) |-> els[j].content])

\* The createParagraphBullets requests of phase 1, in document order.
RECURSIVE ListBulletRequests(_, _, _)
ListBulletRequests(content, startIndex, endIndex) ==
    IF content = <<>> THEN <<>>
    ELSE LET element == Head(content)
             rest    == ListBulletRequests(Tail(content), startIndex, endIndex)
             marker  == ClassifyMarker(TrimStart(ParagraphText(element.elements)))
         IN  IF \/ element.kind # "para"
                \/ element.startIndex = Undef
                \/ element.endIndex = Undef
                \/ (startIndex # Undef /\ element.endIndex <= startIndex)
                \/ (endIndex # Undef /\ element.startIndex >= endIndex)
                \/ marker.bulletPreset = ""
             THEN rest
             ELSE <<BulletsReq(element.startIndex, element.endIndex,
                               marker.bulletPreset)>> \o rest

\* The runs phase 2 reads: those with text and a startIndex.
RECURSIVE IndexedRuns(_)
IndexedRuns(els) ==
    IF els = <<>> THEN <<>>
    ELSE (IF Head(els).content # <<>> /\ Head(els).startIndex # Undef
          THEN <<Head(els)>> ELSE <<>>) \o IndexedRuns(Tail(els))

\* The deleteContentRange requests of phase 2, in document order.
RECURSIVE ListDeleteRequests(_)
ListDeleteRequests(content) ==
    IF content = <<>> THEN <<>>
    ELSE LET element        == Head(content)
             rest           == ListDeleteRequests(Tail(content))
             runs           == IndexedRuns(element.elements)
             paragraphText  == ParagraphText(runs)
             textStartIndex == IF runs = <<>> THEN element.startIndex
                               ELSE runs[1].startIndex
             trimmedText    == TrimStart(paragraphText)
             leadingSpaces  == Len(paragraphText) - Len(trimmedText)
             markerLength   == MarkerMatchLength(trimmedText)
             deleteStart    == textStartIndex + leadingSpaces
         IN  IF element.kind # "para" \/ element.startIndex = Undef
                \/ markerLength = -1
             THEN rest
             ELSE <<DeleteReq(deleteStart, deleteStart + markerLength)>> \o rest

Reverse(s) == [i \in 1..Len(s) |-> s[Len(s) + 1 - i]]

\* The batch submitted as built, without the reversal.
OrderDeleteRequestsAsBuilt(reqs) == reqs

\* deleteRequests.reverse() before the batch is submitted.
OrderDeleteRequests(reqs) == Reverse(reqs)

----------------------------------------------------------------------------
(* getTableCellRange and editTableCell *)

\* Math.abs(startIdx - tableStartIndex) <= 10.
CellTableTolerance == 10

Abs(x) == IF x < 0 THEN 0 - x ELSE x

\* The response to the fields mask of getTableCellRange of a service that
\* honours it: a top-level paragraph comes without its paragraph field.
MaskedForCells(content) ==
    [i \in 1..Len(content) |->
        IF content[i].kind = "table" THEN content[i]
        ELSE [content[i] EXCEPT !.kind = "none", !.elements = <<>>]]

FetchForCells(d, h) ==
    IF h THEN MaskedForCells(FetchDocument(d)) ELSE FetchDocument(d)

\* Position in content of the first table within the tolerance of
\* tableStartIndex, or 0.
FindTargetTable(content, tableStartIndex) ==
    LET near == {i \in 1..Len(content) :
                    /\ content[i].kind = "table"
                    /\ content[i].startIndex # Undef
                    /\ Abs(content[i].startIndex - tableStartIndex)
                           <= CellTableTolerance}
    IN  IF near = {} THEN 0 ELSE CHOOSE i \in near : \A j \in near : i <= j

\* Whether some text run of the cell has text left after trim().
CellHasContent(cellContent) ==
    \E i \in 1..Len(cellContent) :
        /\ cellContent[i].kind = "para"
        /\ \E j \in 1..Len(cellContent[i].elements) :
               ~IsBlank(cellContent[i].elements[j].content)

NullCell == [kind |-> "null"]

\* The catch block of getTableCellRange: whatever was thrown, an Error with
\* the message of the cause and without its code.
CatchCellRangeError(kind) == Threw("Error", "Generic", "getTableCellRange")

\* contentEndIndex with the cell's last newline left out.
ContentEndIndexTrimmed(cell) ==
    IF Len(cell.content) > 0 /\ Last(cell.content).endIndex # Undef
    THEN Last(cell.content).endIndex - 1
    ELSE cell.endIndex

\* contentEndIndex: the end of the cell's last content element.
ContentEndIndex(cell) ==
    IF Len(cell.content) > 0 /\ Last(cell.content).endIndex # Undef
    THEN Last(cell.content).endIndex
    ELSE cell.endIndex

ThrownCell == [kind |-> "throw"]

\* The body of the try block of getTableCellRange on a fetched body.content:
\* a cell range, null, or the TypeError of indexing with a negative index.
getTableCellRangeIn(content, tableStartIndex, rowIndex, columnIndex) ==
    LET t == FindTargetTable(content, tableStartIndex)
    IN  IF t = 0 THEN NullCell
        ELSE LET tableRows == content[t].tableRows
             IN  IF rowIndex >= Len(tableRows) THEN NullCell
                 ELSE IF rowIndex < 0 THEN ThrownCell
                 ELSE LET tableCells == tableRows[rowIndex + 1].tableCells
                      IN  IF columnIndex >= Len(tableCells) THEN NullCell
                          ELSE IF columnIndex < 0 THEN ThrownCell
                          ELSE LET cell == tableCells[columnIndex + 1]
                                   some == Len(cell.content) > 0
                               IN  [kind |-> "cell",
                                    cellStartIndex |-> cell.startIndex,
                                    cellEndIndex |-> cell.endIndex,
                                    contentStartIndex |->
                                        IF some /\ cell.content[1].startIndex # Undef
                                        THEN cell.content[1].startIndex
                                        ELSE cell.startIndex,
                                    contentEndIndex |-> ContentEndIndex(cell),
                                    hasContent |->
                                        some /\ CellHasContent(cell.content)]

\* An optional argument that was not passed.
Absent == [given |-> FALSE]

Given(v) == [given |-> TRUE, value |-> v]

\* JavaScript truthiness of an optional string argument.
Truthy(arg) == arg.given /\ arg.value # <<>>

\* The first batch of editTableCell.
CellEditRequests(cellRange, textContent) ==
    LET deleteEnd == cellRange.contentEndIndex - 1
    IN  IF ~textContent.given THEN <<>>
        ELSE (IF cellRange.hasContent /\ deleteEnd > cellRange.contentStartIndex
              THEN <<DeleteReq(cellRange.contentStartIndex, deleteEnd)>>
              ELSE <<>>)
             \o (IF Truthy(textContent)
                 THEN <<InsertTextReq(cellRange.contentStartIndex, textContent.value)>>
                 ELSE <<>>)

\* A style argument: the options that are defined in it, and the colour
\* options among them whose value hexToRgbColor does not accept.
Style(options, invalid) == Given([options |-> options, invalid |-> invalid])

\* The options buildUpdateTextStyleRequest tests, in the order of its tests.
TextStyleOptions ==
    <<"bold", "italic", "underline", "strikethrough", "fontSize",
      "fontFamily", "foregroundColor", "backgroundColor", "linkUrl">>

\* The colour options, which go through hexToRgbColor.
ColorOptions == {"foregroundColor", "backgroundColor"}

\* The field name pushed for a defined text option.
TextFieldOf(option) ==
    IF option = "fontFamily" THEN "weightedFontFamily"
    ELSE IF option = "linkUrl" THEN "link"
    ELSE option

\* The text fields pushed, with the push for linkUrl left out.
TextFieldsWithoutLink(style) ==
    {TextFieldOf(o) : o \in (style.options \cap Elements(TextStyleOptions)) \ {"linkUrl"}}

\* The text fields pushed: one per defined option.
TextFields(style) ==
    {TextFieldOf(o) : o \in style.options \cap Elements(TextStyleOptions)}

\* The options buildUpdateParagraphStyleRequest tests, in the order of its
\* tests; each pushes a field of its own name.
ParagraphStyleOptions ==
    <<"alignment", "indentStart", "indentEnd", "spaceAbove", "spaceBelow",
      "namedStyleType", "keepWithNext">>

\* The paragraph fields pushed: one per defined option.
ParagraphFields(style) == style.options \cap Elements(ParagraphStyleOptions)

\* buildUpdateTextStyleRequest: no request without a field to update.
buildUpdateTextStyleRequest(startIndex, endIndex, style) ==
    IF TextFields(style) = {} THEN <<>>
    ELSE <<TextStyleReq(startIndex, endIndex, TextFields(style))>>

\* buildUpdateParagraphStyleRequest: no request without a field to update.
buildUpdateParagraphStyleRequest(startIndex, endIndex, style) ==
    IF ParagraphFields(style) = {} THEN <<>>
    ELSE <<ParagraphStyleReq(startIndex, endIndex, ParagraphFields(style))>>

\* hexToRgbColor returned null for a defined colour of the text style.
StyleThrows(textStyle) ==
    /\ textStyle.given
    /\ textStyle.value.invalid \cap textStyle.value.options \cap ColorOptions # {}

\* What buildUpdateTextStyleRequest throws for such a colour.
InvalidColorError == Threw("UserError", "InvalidColor", "buildUpdateTextStyleRequest")

\* The style batch of editTableCell, from the re-located cell.
CellStyleRequests(updatedCellRange, textContent, textStyle, paragraphStyle) ==
    LET textStart == updatedCellRange.contentStartIndex
        textEnd   == textStart + Len(textContent.value)
    IN  (IF textStyle.given
         THEN buildUpdateTextStyleRequest(textStart, textEnd, textStyle.value)
         ELSE <<>>)
        \o (IF paragraphStyle.given
            THEN buildUpdateParagraphStyleRequest(
                     updatedCellRange.contentStartIndex,
                     updatedCellRange.contentEndIndex, paragraphStyle.value)
            ELSE <<>>)

WantsStyleGivenText(o) == (o.textStyle.given \/ o.paragraphStyle.given) /\ o.textContent.given

\* Whether editTableCell goes on to its style phase.
WantsStyle(o) == (o.textStyle.given \/ o.paragraphStyle.given) /\ Truthy(o.textContent)

----------------------------------------------------------------------------
(* createTableWithData *)

\* startIdx >= insertIndex - 5.
InsertedTableSlack == 5

\* Math.abs(element.startIndex - tableStartIndex) <= 20.
BoldTableTolerance == 20

UpperCase ==
    <<"A", "B", "C", "D", "E", "F", "G", "H", "I", "J", "K", "L", "M",
      "N", "O", "P", "Q", "R", "S", "T", "U", "V", "W", "X", "Y", "Z">>

LowerCase ==
    <<"a", "b", "c", "d", "e", "f", "g", "h", "i", "j", "k", "l", "m",
      "n", "o", "p", "q", "r", "s", "t", "u", "v", "w", "x", "y", "z">>

\* String.prototype.toLowerCase.
ToLowerCase(text) ==
    [i \in 1..Len(text) |->
        IF \E k \in 1..26 : UpperCase[k] = text[i]
        THEN LowerCase[CHOOSE k \in 1..26 : UpperCase[k] = text[i]]
        ELSE text[i]]

\* rows[dataRowIdx][0].toLowerCase().includes('total'), rows[dataRowIdx][0]
\* being truthy; dataRowIdx is 0-based.
IsTotalRow(rows, dataRowIdx) ==
    /\ dataRowIdx >= 0
    /\ dataRowIdx < Len(rows)
    /\ Len(rows[dataRowIdx + 1]) > 0
    /\ IndexOf(ToLowerCase(rows[dataRowIdx + 1][1]),
               <<"t", "o", "t", "a", "l">>, 0) # -1

\* Position in content of the first table at or after insertIndex - 5, or 0.
FindInsertedTable(content, insertIndex) ==
    LET after == {i \in 1..Len(content) :
                     /\ content[i].kind = "table"
                     /\ content[i].startIndex # Undef
                     /\ content[i].startIndex >= insertIndex - InsertedTableSlack}
    IN  IF after = {} THEN 0 ELSE CHOOSE i \in after : \A j \in after : i <= j

\* Where the text of a cell is inserted: the start of the first element of its
\* first paragraph, else the start of its first content element.
CellInsertIndex(firstContent) ==
    IF /\ firstContent.kind = "para"
       /\ Len(firstContent.elements) > 0
       /\ firstContent.elements[1].startIndex # Undef
    THEN firstContent.elements[1].startIndex
    ELSE firstContent.startIndex

\* cellText of the cell at (rowIdx, colIdx), both 0-based.
CellTextFor(o, rowIdx, colIdx) ==
    IF rowIdx = 0
    THEN IF colIdx < Len(o.headers) THEN o.headers[colIdx + 1] ELSE <<>>
    ELSE IF rowIdx - 1 < Len(o.rows) /\ colIdx < Len(o.rows[rowIdx])
    THEN o.rows[rowIdx][colIdx + 1]
    ELSE <<>>

CellBoldFor(o, rowIdx) ==
    IF rowIdx = 0 THEN o.boldHeaders
    ELSE o.boldTotalRow /\ IsTotalRow(o.rows, rowIdx - 1)

\* The entry pushed for one cell, if any.
CellInsertionAt(cell, o, rowIdx, colIdx) ==
    IF /\ Len(cell.content) > 0
       /\ CellTextFor(o, rowIdx, colIdx) # <<>>
       /\ CellInsertIndex(cell.content[1]) # Undef
    THEN <<[index |-> CellInsertIndex(cell.content[1]),
            text |-> CellTextFor(o, rowIdx, colIdx),
            isBold |-> CellBoldFor(o, rowIdx)]>>
    ELSE <<>>

\* cellInsertions as pushed: row by row, cell by cell.
CellInsertions(tableRows, o) ==
    Concat([r \in 1..Len(tableRows) |->
        Concat([c \in 1..Len(tableRows[r].tableCells) |->
            CellInsertionAt(tableRows[r].tableCells[c], o, r - 1, c - 1)])])

\* The comparator reversed: (a, b) => a.index - b.index.
InsertByIndexAscending(sorted, x) ==
    LET k == Cardinality({i \in 1..Len(sorted) : sorted[i].index <= x.index})
    IN  SubSeq(sorted, 1, k) \o <<x>> \o SubSeq(sorted, k + 1, Len(sorted))

\* cellInsertions.sort((a, b) => b.index - a.index): a stable sort.
InsertByIndex(sorted, x) ==
    LET k == Cardinality({i \in 1..Len(sorted) : sorted[i].index >= x.index})
    IN  SubSeq(sorted, 1, k) \o <<x>> \o SubSeq(sorted, k + 1, Len(sorted))

RECURSIVE SortCellInsertions(_)
SortCellInsertions(ins) ==
    IF ins = <<>> THEN <<>>
    ELSE InsertByIndex(SortCellInsertions(SubSeq(ins, 1, Len(ins) - 1)), Last(ins))

\* textRequests: one insertText per entry, in the entries' order.
TableTextRequests(cellInsertions) ==
    [i \in 1..Len(cellInsertions) |->
        InsertTextReq(cellInsertions[i].index, cellInsertions[i].text)]

\* boldCells.length > 0.
HasBoldCells(cellInsertions) ==
    \E i \in 1..Len(cellInsertions) : cellInsertions[i].isBold

\* shouldBoldRow of the bold phase; rowIdx is 0-based.
ShouldBoldRow(o, rowIdx) ==
    IF rowIdx = 0 /\ o.boldHeaders THEN TRUE
    ELSE o.boldTotalRow /\ rowIdx > 0 /\ IsTotalRow(o.rows, rowIdx - 1)

\* The updateTextStyle requests for the text runs of a content list.
BoldRunsOf(cellContent) ==
    Concat([p \in 1..Len(cellContent) |->
        Concat([e \in 1..Len(cellContent[p].elements) |->
            LET elem == cellContent[p].elements[e]
            IN  IF /\ ~IsBlank(elem.content)
                   /\ elem.startIndex # Undef
                   /\ elem.endIndex # Undef
                   /\ elem.endIndex > elem.startIndex
                THEN <<TextStyleReq(elem.startIndex, elem.endIndex, {"bold"})>>
                ELSE <<>>])])

\* boldRequests: the runs of the rows to embolden of the first table within
\* the tolerance of tableStartIndex.
TableBoldRequests(content, tableStartIndex, o) ==
    LET near == {i \in 1..Len(content) :
                    /\ content[i].kind = "table"
                    /\ content[i].startIndex # Undef
                    /\ Abs(content[i].startIndex - tableStartIndex)
                           <= BoldTableTolerance}
    IN  IF near = {} THEN <<>>
        ELSE LET tRows == content[CHOOSE i \in near : \A j \in near : i <= j].tableRows
             IN  Concat([r \in 1..Len(tRows) |->
                     IF ShouldBoldRow(o, r - 1)
                     THEN Concat([c \in 1..Len(tRows[r].tableCells) |->
                              BoldRunsOf(tRows[r].tableCells[c].content)])
                     ELSE <<>>])

-----------------------------------------------------------------------------
(* getAllTabs *)

\* The level handed down to the children, not increased.
ChildLevelSame(level) == level

\* The level handed down to the children of a tab: level + 1.
ChildLevel(level) == level + 1

\* addCurrentAndChildTabs, as the list of the tabs it pushes: the tab with its
\* level, then what the calls for its children push, in their order.
RECURSIVE addCurrentAndChildTabs(_, _), AddEachTab(_, _)
addCurrentAndChildTabs(tab, level) ==
    <<[id |-> tab.id, childTabs |-> tab.childTabs, level |-> level]>>
        \o AddEachTab(tab.childTabs, ChildLevel(level))

\* for (const tab of tabs) addCurrentAndChildTabs(tab, allTabs, level).
AddEachTab(tabs, level) ==
    IF tabs = <<>> THEN <<>>
    ELSE addCurrentAndChildTabs(Head(tabs), level) \o AddEachTab(Tail(tabs), level)

\* getAllTabs: nothing without tabs, else the top-level tabs at level 0.
getAllTabs(document) ==
    IF ~document.tabs.given \/ document.tabs.value = <<>> THEN <<>>
    ELSE AddEachTab(document.tabs.value, 0)

----------------------------------------------------------------------------
(* The locators: findTextRange and getParagraphRange on a fetched tree *)

MaxTextLen == 2

MaxInstance == 3

LocAlphabet == {"a", "b"}

ParaTexts == SeqsUpTo(LocAlphabet, MaxTextLen)

HelloText ==
    <<"H", "e", "l", "l", "o", " ", "w", "o", "r", "l", "d", ".", " ",
      "H", "e", "l", "l", "o", " ", "a", "g", "a", "i", "n", ".">>

HelloNeedle == <<"H", "e", "l", "l", "o">>

HelloDoc == Body(<<Txt(HelloText) \o <<Tok(NL)>>>>)

\* A table nested in a cell of a table.
NestedDoc ==
    Body(<<Para(<<"a">>),
           Table(<<Row(<<Cell(<<Para(<<"b">>),
                                Table(<<Row(<<Cell(<<Para(<<"a", "b">>)>>)>>)>>),
                                Para(<<"a">>)>>),
                         Cell(<<Para(<<"b", "a">>)>>)>>)>>),
           Para(<<>>)>>)

\* One paragraph of three runs: "a", bold "ba", "b\n".
BoldDoc ==
    Body(<<Txt(<<"a">>) \o BoldTxt(<<"b", "a">>) \o Txt(<<"b">>) \o <<Tok(NL)>>>>)

\* A paragraph with an inline object between two runs.
ObjDoc ==
    Body(<<Txt(<<"a", "b">>) \o <<Tok("<O>")>> \o Txt(<<"a", "b">>) \o <<Tok(NL)>>,
           Para(<<"a">>)>>)

GridDoc ==
    Body(<<Para(<<>>),
           Table(<<Row(<<Cell(<<Para(<<"a">>)>>), Cell(<<Para(<<"b">>)>>)>>),
                   Row(<<Cell(<<Para(<<"a", "a">>), Para(<<"b">>)>>),
                         Cell(<<Para(<<>>)>>)>>)>>),
           Para(<<"a">>)>>)

\* A text in which a needle overlaps itself.
RepeatDoc == Body(<<Para(<<"a", "a", "a", "a">>)>>)

LocDocs ==
    {Body(<<Para(x)>>) : x \in ParaTexts}
    \cup {Body(<<Para(x), Para(y)>>) : x, y \in ParaTexts}
    \cup {Body(<<Para(<<"a">>),
                 Table(<<Row(<<Cell(<<Para(y)>>), Cell(<<Para(z)>>)>>)>>),
                 Para(<<>>)>>) : y, z \in ParaTexts}
    \cup {HelloDoc, NestedDoc, BoldDoc, ObjDoc, GridDoc, RepeatDoc}

Needles ==
    {<<"a">>, <<"b">>, <<"a", "a">>, <<"a", "b">>, <<"b", "a">>,
     <<NL, "a">>, <<"b", NL>>, <<"a", NL, "b">>, HelloNeedle}

LocInit ==
    /\ doc \in LocDocs
    /\ doc0 = doc
    /\ honour = TRUE
    /\ pc = "idle"
    /\ op = NoOp
    /\ tree = <<>>
    /\ loc = NoLoc
    /\ pending = <<>>
    /\ log = <<>>
    /\ ret = NoRet

\* findTextRange up to its await of documents.get.
StartFindTextRange ==
    /\ pc = "idle"
    /\ \E textToFind \in Needles, instance \in 1..MaxInstance :
           op' = [fn |-> "findTextRange", textToFind |-> textToFind,
                  instance |-> instance]
    /\ pc' = "find_get"
    /\ log' = Append(log, GetCall)
    /\ UNCHANGED <<doc, doc0, honour, tree, loc, pending, ret>>

\* documents.get answered: the walk, the search and the return.
FindTextRangeGot ==
    /\ pc = "find_get"
    /\ tree' = FetchDocument(doc)
    /\ LET r == findTextRangeIn(tree', op.textToFind, op.instance)
       IN  /\ ret' = Returned(r.range)
           /\ loc' = [phase |-> 1, iters |-> r.iters, starts |-> r.starts,
                       segments |-> r.segments]
    /\ pc' = "done"
    /\ log' = Completed(log, "ok")
    /\ UNCHANGED <<doc, doc0, honour, op, pending>>

\* getParagraphRange up to its await of documents.get.
StartGetParagraphRange ==
    /\ pc = "idle"
    /\ \E indexWithin \in 0..Len(doc) :
           op' = [fn |-> "getParagraphRange", indexWithin |-> indexWithin]
    /\ pc' = "para_get"
    /\ log' = Append(log, GetCall)
    /\ UNCHANGED <<doc, doc0, honour, tree, loc, pending, ret>>

GetParagraphRangeGot ==
    /\ pc = "para_get"
    /\ tree' = FetchDocument(doc)
    /\ ret' = Returned(findParagraphInContent(tree', op.indexWithin))
    /\ pc' = "done"
    /\ log' = Completed(log, "ok")
    /\ UNCHANGED <<doc, doc0, honour, op, loc, pending>>

\* The catch block of findTextRange and of getParagraphRange: 404 and 403
\* become a UserError, anything else a plain Error with the message only.
CatchLocatorError(kind, by) ==
    IF kind \in {"NotFound", "PermissionDenied"}
    THEN Threw("UserError", kind, by)
    ELSE Threw("Error", "Generic", by)

\* documents.get rejects under a locator.
LocGetFail ==
    /\ pc \in {"find_get", "para_get"}
    /\ \E kind \in TransportFailures :
           /\ ret' = CatchLocatorError(kind, op.fn)
           /\ log' = Failed(log, kind)
    /\ pc' = "failed"
    /\ UNCHANGED <<doc, doc0, honour, op, tree, loc, pending>>

LocNext ==
    \/ StartFindTextRange
    \/ FindTextRangeGot
    \/ StartGetParagraphRange
    \/ GetParagraphRangeGot
    \/ LocGetFail

SpecLocate == LocInit /\ [][LocNext]_vars

----------------------------------------------------------------------------
(* The multi-phase operations as processes: one action per await *)

\* The tree a later phase reads: the one just fetched.
UpdatedTreeStale(previous, fetched) == previous

UpdatedTree(previous, fetched) == fetched

\* A failed batchUpdate submitted again.
AfterFailedBatchRetry(position) == position

\* Where the operation stands after executeBatchUpdate has thrown: no caller
\* catches it.
AfterFailedBatch(position) == "failed"

\* The open call answered, the operation moves to position next with
\* requests reqs (if next is a batchUpdate), locals l and result r.
Proceed(next, reqs, l, r) ==
    /\ pc' = next
    /\ pending' = (IF next \in BatchPcs THEN reqs ELSE <<>>)
    /\ log' = Issue(Completed(log, "ok"), next, reqs)
    /\ loc' = l
    /\ ret' = r

\* The reply to a batch of n requests; {} has none.
Reply(n) == [replies |-> n]

Success == [success |-> TRUE]

SuccessAt(tableStartIndex) == [success |-> TRUE, tableStartIndex |-> tableStartIndex]

MaxCols == 2

ListDocA == Body(<<Para(<<"-", " ", "a">>), Para(<<"a">>), Para(<<"1", ".", " ", "b">>)>>)

ListDocB == Body(<<Para(<<" ", "*", " ", "a">>), Para(<<"a", ".", "b">>), Para(<<"-">>)>>)

ListDocC == Body(<<Para(<<"-">>), Para(<<"a">>)>>)

TableDocA ==
    Body(<<Para(<<"a">>),
           Table(<<Row(<<Cell(<<Para(<<"a", "b">>)>>), Cell(<<Para(<<>>)>>)>>),
                   Row(<<Cell(<<Para(<<"-", " ", "a">>)>>), Cell(<<Para(<<"b">>)>>)>>)>>),
           Para(<<"b">>)>>)

SmallTableDoc ==
    Body(<<Para(<<>>), Table(<<Row(<<Cell(<<Para(<<>>)>>)>>)>>), Para(<<>>)>>)

OpsDocs == {ListDocA, ListDocB, ListDocC, TableDocA, SmallTableDoc}

ListRangeStarts == {Undef, 4}

ListRangeEnds == {Undef, 5}

CellAnchors == {5, 13, 14}

CellIndexes == -1..2

TextContents == {Absent, Given(<<>>), Given(<<"x">>), Given(<<"x", "y">>)}

TextStyles == {Absent, Style({}, {}), Style({"bold"}, {}),
               Style({"foregroundColor"}, {"foregroundColor"})}

ParagraphStyles == {Absent, Style({"alignment"}, {})}

\* A row of m texts, the one at position gap (if any) empty.
RowWithGap(m, gap) == [i \in 1..m |-> IF i = gap THEN <<>> ELSE <<"x", "y">>]

TextRows(n) == {RowWithGap(m, gap) : m \in 0..n, gap \in 0..n}

TotalRows ==
    << << <<"x", "y">>, <<"x", "y">> >>,
       << <<"T", "o", "t", "a", "l">>, <<"x", "y">> >> >>

HeaderInputs == TextRows(MaxCols)

\* No data row, one data row shorter or longer than the headers or as long,
\* or two of which the second is a total row.
RowInputs == {<<>>, TotalRows} \cup {<<r>> : r \in TextRows(MaxCols + 1)}

InsertIndexes(d) == {0, 1, Len(d) - 1}

OpsInit ==
    /\ doc \in OpsDocs
    /\ doc0 = doc
    /\ honour = TRUE
    /\ pc = "idle"
    /\ op = NoOp
    /\ tree = <<>>
    /\ loc = NoLoc
    /\ pending = <<>>
    /\ log = <<>>
    /\ ret = NoRet

\* detectAndFormatLists up to its first await of documents.get.
StartDetectAndFormatLists ==
    /\ pc = "idle"
    /\ \E startIndex \in ListRangeStarts, endIndex \in ListRangeEnds :
           op' = [fn |-> "detectAndFormatLists", startIndex |-> startIndex,
                  endIndex |-> endIndex]
    /\ honour' \in BOOLEAN
    /\ pc' = "list_get1"
    /\ log' = Append(log, GetCall)
    /\ UNCHANGED <<doc, doc0, tree, loc, pending, ret>>

\* The first tree answered: phase 1 and the submission of its batch.
ListGot1 ==
    /\ pc = "list_get1"
    /\ tree' = FetchForLists(doc, honour)
    /\ LET requests == ListBulletRequests(tree', op.startIndex, op.endIndex)
       IN  IF requests = <<>>
           THEN Proceed("done", <<>>, loc, Returned(Reply(0)))
           ELSE Proceed("list_batch1", requests,
                        [phase |-> 1, result |-> Reply(Len(requests))], ret)
    /\ UNCHANGED <<doc, doc0, honour, op>>

\* The bullets applied: the re-fetch is issued.
ListBatch1Ok ==
    /\ pc = "list_batch1"
    /\ ApplyMutations(doc, pending).ok
    /\ doc' = ApplyMutations(doc, pending).doc
    /\ Proceed("list_get2", <<>>, loc, ret)
    /\ UNCHANGED <<doc0, honour, op, tree>>

\* The updated tree answered: phase 2, the reversal and the submission.
ListGot2 ==
    /\ pc = "list_get2"
    /\ tree' = UpdatedTree(tree, FetchForLists(doc, honour))
    /\ LET deleteRequests == OrderDeleteRequests(ListDeleteRequests(tree'))
       IN  IF deleteRequests = <<>>
           THEN Proceed("done", <<>>, loc, Returned(loc.result))
           ELSE Proceed("list_batch2", deleteRequests, loc, ret)
    /\ UNCHANGED <<doc, doc0, honour, op>>

ListBatch2Ok ==
    /\ pc = "list_batch2"
    /\ ApplyMutations(doc, pending).ok
    /\ doc' = ApplyMutations(doc, pending).doc
    /\ Proceed("done", <<>>, loc, Returned(loc.result))
    /\ UNCHANGED <<doc0, honour, op, tree>>

\* editTableCell up to the await of documents.get in getTableCellRange.
StartEditTableCell ==
    /\ pc = "idle"
    /\ \E tableStartIndex \in CellAnchors, rowIndex \in CellIndexes,
          columnIndex \in CellIndexes, textContent \in TextContents,
          textStyle \in TextStyles, paragraphStyle \in ParagraphStyles :
           op' = [fn |-> "editTableCell", tableStartIndex |-> tableStartIndex,
                  rowIndex |-> rowIndex, columnIndex |-> columnIndex,
                  textContent |-> textContent, textStyle |-> textStyle,
                  paragraphStyle |-> paragraphStyle]
    /\ honour' \in BOOLEAN
    /\ pc' = "cell_get1"
    /\ log' = Append(log, GetCall)
    /\ UNCHANGED <<doc, doc0, tree, loc, pending, ret>>

\* The cell located: the content batch is built and submitted.
CellGot1 ==
    /\ pc = "cell_get1"
    /\ tree' = FetchForCells(doc, honour)
    /\ LET cellRange == getTableCellRangeIn(tree', op.tableStartIndex,
                                            op.rowIndex, op.columnIndex)
       IN  IF cellRange.kind = "throw"
           THEN Proceed("failed", <<>>, loc,
                        CatchCellRangeError("TypeError"))
           ELSE IF cellRange.kind = "null"
           THEN Proceed("failed", <<>>, loc,
                        Threw("UserError", "CellNotFound", "editTableCell"))
           ELSE LET requests == CellEditRequests(cellRange, op.textContent)
                IN  IF requests # <<>>
                    THEN Proceed("cell_batch1", requests,
                                 [phase |-> 1, cellRange |-> cellRange], ret)
                    ELSE IF WantsStyle(op)
                    THEN Proceed("cell_get2", <<>>,
                                 [phase |-> 1, cellRange |-> cellRange], ret)
                    ELSE Proceed("done", <<>>,
                                 [phase |-> 1, cellRange |-> cellRange],
                                 Returned(Success))
    /\ UNCHANGED <<doc, doc0, honour, op>>

CellBatch1Ok ==
    /\ pc = "cell_batch1"
    /\ ApplyMutations(doc, pending).ok
    /\ doc' = ApplyMutations(doc, pending).doc
    /\ IF WantsStyle(op)
       THEN Proceed("cell_get2", <<>>, loc, ret)
       ELSE Proceed("done", <<>>, loc, Returned(Success))
    /\ UNCHANGED <<doc0, honour, op, tree>>

\* The cell located again: the style batch is built and submitted.
CellGot2 ==
    /\ pc = "cell_get2"
    /\ tree' = UpdatedTree(tree, FetchForCells(doc, honour))
    /\ LET updatedCellRange == getTableCellRangeIn(tree', op.tableStartIndex,
                                                   op.rowIndex, op.columnIndex)
       IN  IF updatedCellRange.kind = "throw"
           THEN Proceed("failed", <<>>, loc,
                        CatchCellRangeError("TypeError"))
           ELSE IF updatedCellRange.kind = "null"
           THEN Proceed("done", <<>>, loc, Returned(Success))
           ELSE IF StyleThrows(op.textStyle)
           THEN Proceed("failed", <<>>, loc,
                        InvalidColorError)
           ELSE LET styleRequests ==
                        CellStyleRequests(updatedCellRange, op.textContent,
                                          op.textStyle, op.paragraphStyle)
                IN  IF styleRequests # <<>>
                    THEN Proceed("cell_batch2", styleRequests,
                                 [phase |-> 2, cellRange |-> updatedCellRange], ret)
                    ELSE Proceed("done", <<>>, loc, Returned(Success))
    /\ UNCHANGED <<doc, doc0, honour, op>>

CellBatch2Ok ==
    /\ pc = "cell_batch2"
    /\ ApplyMutations(doc, pending).ok
    /\ doc' = ApplyMutations(doc, pending).doc
    /\ Proceed("done", <<>>, loc, Returned(Success))
    /\ UNCHANGED <<doc0, honour, op, tree>>

\* createTableWithData up to the await of the insertTable batch; without
\* headers it throws before any call.
StartCreateTableWithData ==
    /\ pc = "idle"
    /\ \E insertIndex \in InsertIndexes(doc), headers \in HeaderInputs,
          rows \in RowInputs, boldHeaders \in BOOLEAN, boldTotalRow \in BOOLEAN :
           op' = [fn |-> "createTableWithData", insertIndex |-> insertIndex,
                  headers |-> headers, rows |-> rows,
                  boldHeaders |-> boldHeaders, boldTotalRow |-> boldTotalRow]
    /\ IF Len(op'.headers) = 0
       THEN /\ pc' = "failed"
            /\ ret' = Threw("UserError", "EmptyHeaders", "createTableWithData")
            /\ UNCHANGED <<pending, log>>
       ELSE /\ pc' = "tbl_batch1"
            /\ pending' = <<InsertTableReq(op'.insertIndex, Len(op'.rows) + 1,
                                           Len(op'.headers))>>
            /\ log' = Append(log, BatchCall(pending'))
            /\ ret' = ret
    /\ UNCHANGED <<doc, doc0, honour, tree, loc>>

\* The table inserted: the document is fetched.
TblBatch1Ok ==
    /\ pc = "tbl_batch1"
    /\ ApplyMutations(doc, pending).ok
    /\ doc' = ApplyMutations(doc, pending).doc
    /\ Proceed("tbl_get1", <<>>, loc, ret)
    /\ UNCHANGED <<doc0, honour, op, tree>>

\* The tree with the table answered: the table is found, the insertions
\* collected, sorted and submitted.
TblGot1 ==
    /\ pc = "tbl_get1"
    /\ tree' = UpdatedTree(tree, FetchDocument(doc))
    /\ LET t == FindInsertedTable(tree', op.insertIndex)
       IN  IF t = 0
           THEN Proceed("failed", <<>>, loc,
                        Threw("Error", "TableNotFound", "createTableWithData"))
           ELSE LET cellInsertions ==
                        SortCellInsertions(CellInsertions(tree'[t].tableRows, op))
                    found == [phase |-> 1,
                              tableStartIndex |-> tree'[t].startIndex,
                              cellInsertions |-> cellInsertions]
                IN  IF cellInsertions # <<>>
                    THEN Proceed("tbl_batch2", TableTextRequests(cellInsertions),
                                 found, ret)
                    ELSE Proceed("done", <<>>, found,
                                 Returned(SuccessAt(found.tableStartIndex)))
    /\ UNCHANGED <<doc, doc0, honour, op>>

\* The texts inserted: the bold phase starts if a cell is to be bold.
TblBatch2Ok ==
    /\ pc = "tbl_batch2"
    /\ ApplyMutations(doc, pending).ok
    /\ doc' = ApplyMutations(doc, pending).doc
    /\ IF HasBoldCells(loc.cellInsertions)
       THEN Proceed("tbl_get2", <<>>, [loc EXCEPT !.phase = 2], ret)
       ELSE Proceed("done", <<>>, [loc EXCEPT !.phase = 2],
                    Returned(SuccessAt(loc.tableStartIndex)))
    /\ UNCHANGED <<doc0, honour, op, tree>>

\* The tree with the texts answered: the bold batch is built and submitted.
TblGot2 ==
    /\ pc = "tbl_get2"
    /\ tree' = UpdatedTree(tree, FetchDocument(doc))
    /\ LET boldRequests == TableBoldRequests(tree', loc.tableStartIndex, op)
       IN  IF boldRequests # <<>>
           THEN Proceed("tbl_batch3", boldRequests, loc, ret)
           ELSE Proceed("done", <<>>, loc,
                        Returned(SuccessAt(loc.tableStartIndex)))
    /\ UNCHANGED <<doc, doc0, honour, op>>

TblBatch3Ok ==
    /\ pc = "tbl_batch3"
    /\ ApplyMutations(doc, pending).ok
    /\ doc' = ApplyMutations(doc, pending).doc
    /\ Proceed("done", <<>>, [loc EXCEPT !.phase = 3],
               Returned(SuccessAt(loc.tableStartIndex)))
    /\ UNCHANGED <<doc0, honour, op, tree>>

\* executeBatchUpdate answers {} for a request list it never sends.
NothingToDoAlwaysSent(requests) == FALSE

\* executeBatchUpdate: !requests || requests.length === 0.
NothingToDo(requests) == Len(requests) = 0

DirectTexts == {<<>>, <<"x">>}

DirectBatches == {<<>>, <<InsertTextReq(1, <<"x">>)>>, <<DeleteReq(1, 2)>>}

\* executeBatchUpdate up to its await of documents.batchUpdate, for the
\* requests of a caller that is itself not modelled.
EnterExecuteBatchUpdate(requests) ==
    IF NothingToDo(requests)
    THEN /\ pc' = "done"
         /\ ret' = Returned(Reply(0))
         /\ UNCHANGED <<pending, log>>
    ELSE /\ pc' = "exec_batch"
         /\ pending' = requests
         /\ log' = Append(log, BatchCall(requests))
         /\ ret' = ret

\* executeBatchUpdate called directly.
StartExecuteBatchUpdate ==
    /\ pc = "idle"
    /\ \E requests \in DirectBatches :
           /\ op' = [fn |-> "executeBatchUpdate", requests |-> requests]
           /\ EnterExecuteBatchUpdate(requests)
    /\ UNCHANGED <<doc, doc0, honour, tree, loc>>

\* insertText: nothing for an empty text, else one insertText request handed
\* to executeBatchUpdate.
StartInsertText ==
    /\ pc = "idle"
    /\ \E text \in DirectTexts, index \in InsertIndexes(doc) :
           /\ op' = [fn |-> "insertText", text |-> text, index |-> index]
           /\ IF text = <<>>
              THEN /\ pc' = "done"
                   /\ ret' = Returned(Reply(0))
                   /\ UNCHANGED <<pending, log>>
              ELSE EnterExecuteBatchUpdate(<<InsertTextReq(index, text)>>)
    /\ UNCHANGED <<doc, doc0, honour, tree, loc>>

\* createTable testing the rows only.
CreateTableRejectsRowsOnly(rows, columns) == rows < 1

\* createTable: rows < 1 || columns < 1.
CreateTableRejects(rows, columns) == rows < 1 \/ columns < 1

TableDims == {-1, 0, 1, 2}

\* createTable: the dimensions are validated, then one insertTable request
\* is handed to executeBatchUpdate.
StartCreateTable ==
    /\ pc = "idle"
    /\ \E rows \in TableDims, columns \in TableDims, index \in InsertIndexes(doc) :
           /\ op' = [fn |-> "createTable", rows |-> rows, columns |-> columns,
                     index |-> index]
           /\ IF CreateTableRejects(rows, columns)
              THEN /\ pc' = "failed"
                   /\ ret' = Threw("UserError", "InvalidRequest", "createTable")
                   /\ UNCHANGED <<pending, log>>
              ELSE EnterExecuteBatchUpdate(<<InsertTableReq(index, rows, columns)>>)
    /\ UNCHANGED <<doc, doc0, honour, tree, loc>>

\* new URL(u) without a base succeeds when u starts with a scheme: a letter,
\* then letters, digits, '+', '-' or '.', then ':'.
UrlParses(u) ==
    \E k \in 2..Len(u) :
        /\ u[k] = ":"
        /\ u[1] \in Letters
        /\ \A j \in 2..(k - 1) : u[j] \in Letters \cup Digits \cup {"+", "-", "."}

ImageUrls == {<<>>, <<"a">>, <<":", "a">>, <<"a", " ", ":">>, <<"x", ":", "a">>,
              <<"x", "1", ":">>}

ImageSizes == {Undef, 0, 10}

\* insertInlineImage: the URL is validated with new URL(), then one
\* insertInlineImage request, with an objectSize if width and height are both
\* truthy, is handed to executeBatchUpdate.
StartInsertInlineImage ==
    /\ pc = "idle"
    /\ \E imageUrl \in ImageUrls, index \in InsertIndexes(doc),
          width \in ImageSizes, height \in ImageSizes :
           /\ op' = [fn |-> "insertInlineImage", imageUrl |-> imageUrl,
                     index |-> index, width |-> width, height |-> height]
           /\ IF ~UrlParses(imageUrl)
              THEN /\ pc' = "failed"
                   /\ ret' = Threw("UserError", "InvalidRequest", "insertInlineImage")
                   /\ UNCHANGED <<pending, log>>
              ELSE EnterExecuteBatchUpdate(
                       <<InsertImageReq(index, imageUrl,
                                        width \notin {Undef, 0} /\ height \notin {Undef, 0})>>)
    /\ UNCHANGED <<doc, doc0, honour, tree, loc>>

\* documents.batchUpdate answered: executeBatchUpdate returns the response.
ExecBatchOk ==
    /\ pc = "exec_batch"
    /\ ApplyMutations(doc, pending).ok
    /\ doc' = ApplyMutations(doc, pending).doc
    /\ Proceed("done", <<>>, loc, Returned(Reply(Len(pending))))
    /\ UNCHANGED <<doc0, honour, op, tree>>

\* documents.batchUpdate rejects: the batch is invalid, or the call fails on
\* its way.  Nothing of the batch is applied; executeBatchUpdate throws.
BatchFail ==
    /\ pc \in BatchPcs
    /\ \E kind \in TransportFailures
                   \cup (IF ApplyMutations(doc, pending).ok THEN {}
                         ELSE {"InvalidRequest"}) :
           /\ ret' = CatchBatchError(kind)
           /\ pc' = AfterFailedBatch(pc)
           /\ log' = Issue(Failed(log, kind), pc', pending)
    /\ pending' = (IF pc' \in BatchPcs THEN pending ELSE <<>>)
    /\ UNCHANGED <<doc, doc0, honour, op, tree, loc>>

\* documents.get rejects: getTableCellRange wraps the error, the other
\* operations let it through.
GetFail ==
    /\ pc \in {"list_get1", "list_get2", "cell_get1", "cell_get2",
               "tbl_get1", "tbl_get2"}
    /\ \E kind \in TransportFailures :
           /\ ret' = IF pc \in {"cell_get1", "cell_get2"}
                     THEN CatchCellRangeError(kind)
                     ELSE Uncaught(kind)
           /\ log' = Failed(log, kind)
    /\ pc' = "failed"
    /\ UNCHANGED <<doc, doc0, honour, op, tree, loc, pending>>

OpsNext ==
    \/ StartDetectAndFormatLists
    \/ ListGot1
    \/ ListBatch1Ok
    \/ ListGot2
    \/ ListBatch2Ok
    \/ StartEditTableCell
    \/ CellGot1
    \/ CellBatch1Ok
    \/ CellGot2
    \/ CellBatch2Ok
    \/ StartCreateTableWithData
    \/ TblBatch1Ok
    \/ TblGot1
    \/ TblBatch2Ok
    \/ TblGot2
    \/ TblBatch3Ok
    \/ StartExecuteBatchUpdate
    \/ StartInsertText
    \/ StartCreateTable
    \/ StartInsertInlineImage
    \/ ExecBatchOk
    \/ BatchFail
    \/ GetFail

SpecOps == OpsInit /\ [][OpsNext]_vars

-----------------------------------------------------------------------------
(* The multi-phase operations on a document that has another writer *)

HasTable(d) == \E p \in 1..Len(d) : d[p].c = "<T>"

\* The document without its first table.
WithoutFirstTable(d) ==
    LET first == CHOOSE p \in 1..Len(d) :
                     d[p].c = "<T>" /\ \A q \in 1..(p - 1) : d[q].c # "<T>"
        close == CHOOSE p \in first..Len(d) :
                     d[p].c = "</T>" /\ \A q \in first..(p - 1) : d[q].c # "</T>"
    IN  SubSeq(d, 1, first - 1) \o SubSeq(d, close + 1, Len(d))

\* Another writer of the remote document deletes a table while an operation
\* awaits the documents.get of its last phase.
OtherWriterRemovesTable ==
    /\ pc \in {"cell_get2", "tbl_get2"}
    /\ HasTable(doc)
    /\ doc' = WithoutFirstTable(doc)
    /\ UNCHANGED <<doc0, honour, pc, op, tree, loc, pending, log, ret>>

SharedNext ==
    \/ OpsNext
    \/ OtherWriterRemovesTable

SpecShared == OpsInit /\ [][SharedNext]_vars

-----------------------------------------------------------------------------
(* editTableCell on cells in each prior state *)

\* A table whose cells are empty, whitespace-only, one paragraph of text and
\* two paragraphs of text.
CellStatesDoc ==
    Body(<<Para(<<>>),
           Table(<<Row(<<Cell(<<Para(<<>>)>>), Cell(<<Para(<<" ">>)>>)>>),
                   Row(<<Cell(<<Para(<<"a", "b">>)>>),
                         Cell(<<Para(<<"a">>), Para(<<"b">>)>>)>>)>>),
           Para(<<"c">>)>>)

CellsInit ==
    /\ doc = CellStatesDoc
    /\ doc0 = doc
    /\ honour = TRUE
    /\ pc = "idle"
    /\ op = NoOp
    /\ tree = <<>>
    /\ loc = NoLoc
    /\ pending = <<>>
    /\ log = <<>>
    /\ ret = NoRet

CellsNext ==
    \/ StartEditTableCell
    \/ CellGot1
    \/ CellBatch1Ok
    \/ CellGot2
    \/ CellBatch2Ok
    \/ BatchFail
    \/ GetFail

SpecCells == CellsInit /\ [][CellsNext]_vars

----------------------------------------------------------------------------
(* The single-call operations as processes *)

\* A paragraph of 48 characters, then a table of 2 rows and 3 columns that
\* starts at index 50.
ScenarioDoc ==
    Body(<<Para([i \in 1..48 |-> "a"]),
           Table(<<Row(<<Cell(<<Para(<<"a">>)>>), Cell(<<Para(<<>>)>>),
                         Cell(<<Para(<<" ">>)>>)>>),
                   Row(<<Cell(<<Para(<<"a">>), Para(<<"b">>)>>), Cell(<<Para(<<>>)>>),
                         Cell(<<Para(<<"a", "b">>)>>)>>)>>),
           Para(<<>>)>>)

SingleDocs == {ScenarioDoc, TableDocA, SmallTableDoc}

SingleAnchors == {2, 8, 13, 14, 39, 40, 48, 50, 60, 61}

SingleRows == {-1, 0, 1, 2, 5}

SingleColumns == {-1, 0, 2, 3}

SingleInit ==
    /\ doc \in SingleDocs
    /\ doc0 = doc
    /\ honour = TRUE
    /\ pc = "idle"
    /\ op = NoOp
    /\ tree = <<>>
    /\ loc = NoLoc
    /\ pending = <<>>
    /\ log = <<>>
    /\ ret = NoRet

\* getTableCellRange up to its await of documents.get.
StartGetTableCellRange ==
    /\ pc = "idle"
    /\ \E tableStartIndex \in SingleAnchors, rowIndex \in SingleRows,
          columnIndex \in SingleColumns :
           op' = [fn |-> "getTableCellRange", tableStartIndex |-> tableStartIndex,
                  rowIndex |-> rowIndex, columnIndex |-> columnIndex]
    /\ honour' \in BOOLEAN
    /\ pc' = "cellrange_get"
    /\ log' = Append(log, GetCall)
    /\ UNCHANGED <<doc, doc0, tree, loc, pending, ret>>

\* documents.get answered: the table, the row and the cell are looked up.
GetTableCellRangeGot ==
    /\ pc = "cellrange_get"
    /\ tree' = FetchForCells(doc, honour)
    /\ LET cellRange == getTableCellRangeIn(tree', op.tableStartIndex,
                                            op.rowIndex, op.columnIndex)
       IN  IF cellRange.kind = "throw"
           THEN Proceed("failed", <<>>, loc, CatchCellRangeError("TypeError"))
           ELSE Proceed("done", <<>>, loc, Returned(cellRange))
    /\ UNCHANGED <<doc, doc0, honour, op>>

\* documents.get rejects inside the try block of getTableCellRange.
GetTableCellRangeFail ==
    /\ pc = "cellrange_get"
    /\ \E kind \in TransportFailures :
           /\ ret' = CatchCellRangeError(kind)
           /\ log' = Failed(log, kind)
    /\ pc' = "failed"
    /\ UNCHANGED <<doc, doc0, honour, op, tree, loc, pending>>

\* The stub answering with the empty result of its commented-out return.
StubOutcomeEmpty(fn) == Returned(<<>>)

\* What a stubbed helper does with any input: it throws NotImplementedError.
StubOutcome(fn) == Threw("NotImplementedError", "Unimplemented", fn)

StyleCriteria == {{}, {"bold"}, {"bold", "fontFamily"}}

CommentTexts == {<<>>, <<"x">>}

CommentStarts == {-1, 0, 1}

CommentEnds == {0, 2}

\* The whole of a stub: no await, the outcome at once.
RunStub ==
    /\ ret' = StubOutcome(op'.fn)
    /\ pc' = (IF ret'.status = "threw" THEN "failed" ELSE "done")
    /\ UNCHANGED <<doc, doc0, honour, tree, loc, pending, log>>

CallFindParagraphsMatchingStyle ==
    /\ pc = "idle"
    /\ \E styleCriteria \in StyleCriteria :
           op' = [fn |-> "findParagraphsMatchingStyle", styleCriteria |-> styleCriteria]
    /\ RunStub

CallAddCommentHelper ==
    /\ pc = "idle"
    /\ \E text \in CommentTexts, startIndex \in CommentStarts, endIndex \in CommentEnds :
           op' = [fn |-> "addCommentHelper", text |-> text,
                  startIndex |-> startIndex, endIndex |-> endIndex]
    /\ RunStub

SingleNext ==
    \/ StartGetTableCellRange
    \/ GetTableCellRangeGot
    \/ GetTableCellRangeFail
    \/ CallFindParagraphsMatchingStyle
    \/ CallAddCommentHelper

SpecSingle == SingleInit /\ [][SingleNext]_vars

-----------------------------------------------------------------------------
(* The two table finders as processes *)

NoTable == [kind |-> "null"]

\* The two loops of findTableAtIndex on a fetched body.content: position in
\* content of the first table within 10 of tableStartIndex (the test for an
\* exact start comes second in the same iteration), else of the first table
\* that starts at or after tableStartIndex, else 0.
FindTableAtIndexIn(content, tableStartIndex) ==
    LET tables == {i \in 1..Len(content) :
                      /\ content[i].kind = "table"
                      /\ content[i].startIndex # Undef
                      /\ content[i].endIndex # Undef}
        near   == {i \in tables :
                      \/ /\ content[i].startIndex >= tableStartIndex - 10
                         /\ content[i].startIndex <= tableStartIndex + 10
                      \/ content[i].startIndex = tableStartIndex}
        after  == {i \in tables : content[i].startIndex >= tableStartIndex}
    IN  IF near # {} THEN CHOOSE i \in near : \A j \in near : i <= j
        ELSE IF after # {} THEN CHOOSE i \in after : \A j \in after : i <= j
        ELSE 0

\* Two minimal tables six indexes apart.
TwoTablesDoc ==
    Body(<<Para(<<>>), Table(<<Row(<<Cell(<<Para(<<>>)>>)>>)>>),
           Para(<<>>), Table(<<Row(<<Cell(<<Para(<<"a">>)>>)>>)>>), Para(<<>>)>>)

TableFinderDocs == {TwoTablesDoc, ScenarioDoc, TableDocA}

TablesInit ==
    /\ doc \in TableFinderDocs
    /\ doc0 = doc
    /\ honour = TRUE
    /\ pc = "idle"
    /\ op = NoOp
    /\ tree = <<>>
    /\ loc = NoLoc
    /\ pending = <<>>
    /\ log = <<>>
    /\ ret = NoRet

\* findTableAtIndex up to its await of documents.get.
StartFindTableAtIndex ==
    /\ pc = "idle"
    /\ \E tableStartIndex \in SingleAnchors :
           op' = [fn |-> "findTableAtIndex", tableStartIndex |-> tableStartIndex]
    /\ honour' \in BOOLEAN
    /\ pc' = "findtable_get"
    /\ log' = Append(log, GetCall)
    /\ UNCHANGED <<doc, doc0, tree, loc, pending, ret>>

\* documents.get answered: the table, its start and its end, or null.  The
\* fields mask 'body(content(startIndex,endIndex,table))' keeps of the
\* top-level elements what the mask of getTableCellRange keeps.
FindTableAtIndexGot ==
    /\ pc = "findtable_get"
    /\ tree' = FetchForCells(doc, honour)
    /\ LET t == FindTableAtIndexIn(tree', op.tableStartIndex)
       IN  Proceed("done", <<>>, loc,
                   Returned(IF t = 0 THEN NoTable
                            ELSE [kind |-> "table", table |-> tree'[t].tableRows,
                                  startIndex |-> tree'[t].startIndex,
                                  endIndex |-> tree'[t].endIndex]))
    /\ UNCHANGED <<doc, doc0, honour, op>>

\* documents.get rejects inside the try block of findTableAtIndex.
FindTableAtIndexFail ==
    /\ pc = "findtable_get"
    /\ \E kind \in TransportFailures :
           /\ ret' = Threw("Error", "Generic", "findTableAtIndex")
           /\ log' = Failed(log, kind)
    /\ pc' = "failed"
    /\ UNCHANGED <<doc, doc0, honour, op, tree, loc, pending>>

TablesNext ==
    \/ StartFindTableAtIndex
    \/ FindTableAtIndexGot
    \/ FindTableAtIndexFail
    \/ StartGetTableCellRange
    \/ GetTableCellRangeGot
    \/ GetTableCellRangeFail

SpecTables == TablesInit /\ [][TablesNext]_vars

-----------------------------------------------------------------------------
(* The pure functions, applied to inputs drawn from bounded sets *)

MaxParagraphLen == 4

MarkerAlphabet == {"-", "bullet", "1", ".", ")", "a", " ", NL}

ParagraphTexts == SeqsUpTo(MarkerAlphabet, MaxParagraphLen)

\* Style values: any set of defined options, any set of its colours invalid.
TextStyleValues ==
    {[options |-> x[1], invalid |-> x[2]] :
        x \in {y \in (SUBSET Elements(TextStyleOptions)) \X (SUBSET ColorOptions) :
                 y[2] \subseteq y[1]}}

ParagraphStyleValues ==
    {[options |-> o, invalid |-> {}] : o \in SUBSET Elements(ParagraphStyleOptions)}

StyleRanges == {<<1, 3>>, <<5, 6>>}

MaxTabCount == 5

\* The levels of the tabs of a tab tree listed parent first: the first tab is
\* at level 0 and a tab is at most one level below the tab listed before it.
TabLevelLists ==
    {s \in SeqsUpTo(0..(MaxTabCount - 1), MaxTabCount) :
        /\ s # <<>> => s[1] = 0
        /\ \A i \in 1..(Len(s) - 1) : s[i + 1] <= s[i] + 1}

\* How many of the tabs listed after the first belong below it: those before
\* the next tab at its level or above.
BelowFirst(listed, level) ==
    LET stops == {i \in 2..Len(listed) : listed[i].level <= level}
    IN  IF stops = {} THEN Len(listed) - 1
        ELSE (CHOOSE i \in stops : \A j \in stops : i <= j) - 2

\* The tab tree whose tabs, listed parent first, are the given ones.
RECURSIVE TabTree(_, _)
TabTree(listed, level) ==
    IF listed = <<>> THEN <<>>
    ELSE LET n == BelowFirst(listed, level)
         IN  <<[id |-> listed[1].id,
                childTabs |-> TabTree(SubSeq(listed, 2, n + 1), level + 1)]>>
                 \o TabTree(SubSeq(listed, n + 2, Len(listed)), level)

\* The document whose i-th tab, parent first, has id i and the i-th level.
DocumentWithTabs(levels) ==
    [tabs |-> Given(TabTree([i \in 1..Len(levels) |->
                                 [id |-> i, level |-> levels[i]]], 0))]

TabInputs ==
    {[fn |-> "getAllTabs", levels |-> s, document |-> DocumentWithTabs(s)] :
        s \in TabLevelLists}
    \cup {[fn |-> "getAllTabs", levels |-> <<>>, document |-> [tabs |-> Absent]]}

PureInit ==
    /\ doc = Body(<<Para(<<>>)>>)
    /\ doc0 = doc
    /\ honour = TRUE
    /\ pc = "idle"
    /\ op \in [fn : {"classify"}, paragraphText : ParagraphTexts]
           \cup [fn : {"buildUpdateTextStyleRequest"}, range : StyleRanges,
                 style : TextStyleValues]
           \cup [fn : {"buildUpdateParagraphStyleRequest"}, range : StyleRanges,
                 style : ParagraphStyleValues]
           \cup TabInputs
    /\ tree = <<>>
    /\ loc = NoLoc
    /\ pending = <<>>
    /\ log = <<>>
    /\ ret = NoRet

\* The classification of one paragraph in phase 1 of detectAndFormatLists.
ClassifyParagraph ==
    /\ pc = "idle"
    /\ op.fn = "classify"
    /\ ret' = Returned(ClassifyMarker(TrimStart(op.paragraphText)))
    /\ pc' = "done"
    /\ UNCHANGED <<doc, doc0, honour, op, tree, loc, pending, log>>

\* A call of buildUpdateTextStyleRequest.
BuildTextStyle ==
    /\ pc = "idle"
    /\ op.fn = "buildUpdateTextStyleRequest"
    /\ IF StyleThrows(Given(op.style))
       THEN ret' = InvalidColorError /\ pc' = "failed"
       ELSE /\ ret' = Returned(buildUpdateTextStyleRequest(op.range[1], op.range[2],
                                                           op.style))
            /\ pc' = "done"
    /\ UNCHANGED <<doc, doc0, honour, op, tree, loc, pending, log>>

\* A call of buildUpdateParagraphStyleRequest.
BuildParagraphStyle ==
    /\ pc = "idle"
    /\ op.fn = "buildUpdateParagraphStyleRequest"
    /\ ret' = Returned(buildUpdateParagraphStyleRequest(op.range[1], op.range[2],
                                                        op.style))
    /\ pc' = "done"
    /\ UNCHANGED <<doc, doc0, honour, op, tree, loc, pending, log>>

\* A call of getAllTabs.
GetAllTabs ==
    /\ pc = "idle"
    /\ op.fn = "getAllTabs"
    /\ ret' = Returned(getAllTabs(op.document))
    /\ pc' = "done"
    /\ UNCHANGED <<doc, doc0, honour, op, tree, loc, pending, log>>

PureNext ==
    \/ ClassifyParagraph
    \/ BuildTextStyle
    \/ BuildParagraphStyle
    \/ GetAllTabs

SpecPure == PureInit /\ [][PureNext]_vars

----------------------------------------------------------------------------
(* What the locators are checked against: the document itself *)

CharPositions(d) == {p \in 1..Len(d) : IsChar(d[p])}

\* The document index of each character of the document's text, in order.
TextIndexes(d) ==
    LET P == CharPositions(d)
    IN  [j \in 1..Cardinality(P) |->
            (CHOOSE p \in P : Cardinality({q \in P : q < p}) = j - 1) - 1]

\* The text runs of the document, concatenated in document order.
DocText(d) == LET ix == TextIndexes(d) IN [j \in 1..Len(ix) |-> d[ix[j] + 1].c]

OccursAt(text, needle, i) ==
    /\ i + Len(needle) <= Len(text)
    /\ SubSeq(text, i + 1, i + Len(needle)) = needle

\* A finite set of integers as an ascending sequence.
Ascending(S) ==
    [j \in 1..Cardinality(S) |->
        CHOOSE x \in S : Cardinality({y \in S : y < x}) = j - 1]

\* Positions of every appearance of needle in text, overlapping or not.
Appearances(text, needle) ==
    Ascending({i \in 0..Len(text) : OccursAt(text, needle, i)})

\* Positions of the non-overlapping matches, left to right.
RECURSIVE NonOverlapping(_, _, _)
NonOverlapping(text, needle, from) ==
    LET hits == {i \in from..Len(text) : OccursAt(text, needle, i)}
    IN  IF hits = {} THEN <<>>
        ELSE LET i == CHOOSE x \in hits : \A y \in hits : x <= y
             IN  <<i>> \o NonOverlapping(text, needle, i + Len(needle))

\* The range a match at text position i is mapped to: from the index of its
\* first character to one past the index of its last.
RangeOfMatch(d, needle, i) ==
    LET ix == TextIndexes(d)
    IN  Range(ix[i + 1], ix[i + Len(needle)] + 1)

FindDone == pc = "done" /\ op.fn = "findTextRange"

\* The result is the k-th of the matches at positions, or null past their end.
ResultIsKth(positions) ==
    IF op.instance <= Len(positions)
    THEN ret.value = RangeOfMatch(doc, op.textToFind, positions[op.instance])
    ELSE ret.value = NoRange

\* Whether the range holds only text characters (no structural token, no
\* inline object).
OnlyText(d, r) == \A i \in r.startIndex..(r.endIndex - 1) : IsChar(d[i + 1])

----------------------------------------------------------------------------
(* Claims about findTextRange and getParagraphRange, under SpecLocate *)

\* C5: findTextRange never returns a range for an appearance of the needle
\* that straddles a structural gap: every index of a returned range holds a
\* text character.
C5_NeverStraddlesGap ==
    (FindDone /\ ret.value.found) => OnlyText(doc, ret.value)

\* C6 as stated: the k-th result is the k-th non-overlapping left-to-right
\* match, and the result is null for every k past their number.
C6_KthNonOverlapping ==
    FindDone => ResultIsKth(NonOverlapping(DocText(doc), op.textToFind, 0))

\* C6 as amended: the k-th result is the k-th appearance of the needle, left to
\* right, appearances that overlap an earlier one included; the result is null
\* for every k past the number of appearances.
C6_KthAppearance ==
    FindDone => ResultIsKth(Appearances(DocText(doc), op.textToFind))

\* An occurrence was returned that overlaps the appearance before it.
C6_Witness ==
    /\ FindDone
    /\ ret.value.found
    /\ op.instance >= 2
    /\ LET a == Appearances(DocText(doc), op.textToFind)
       IN  a[op.instance] < a[op.instance - 1] + Len(op.textToFind)

\* C7: when findTextRange returns a range for occurrence k and for occurrence
\* k + 1, the start returned for k + 1 is strictly greater than that for k.
C7_StartsIncrease ==
    FindDone =>
        LET next == findTextRangeIn(tree, op.textToFind, op.instance + 1).range
        IN  (ret.value.found /\ next.found)
                => next.startIndex > ret.value.startIndex

C7_Witness ==
    /\ FindDone
    /\ ret.value.found
    /\ findTextRangeIn(tree, op.textToFind, op.instance + 1).range.found

\* C8: the texts of the segments, concatenated in the (sorted) order used for
\* offset mapping, are the document's text runs concatenated in document order.
C8_RoundTrip ==
    FindDone => FullText(loc.segments) = DocText(doc)

\* The walk went through a table nested in a table's cell.
C8_Witness ==
    /\ FindDone
    /\ doc = NestedDoc
    /\ Len(loc.segments) = 6

SegmentsExact(segs) ==
    \A i \in 1..Len(segs) : segs[i].end - segs[i].start = Len(segs[i].text)

\* Position in the concatenated text at which segment i starts.
LogicalStart(segs, i) == Len(FullText(SubSeq(segs, 1, i - 1)))

\* The segment whose logical span holds text position m.
SegmentOf(segs, m) ==
    CHOOSE i \in 1..Len(segs) :
        /\ LogicalStart(segs, i) <= m
        /\ m < LogicalStart(segs, i) + Len(segs[i].text)

\* The match at text position m has all its characters at consecutive indices.
Contiguous(d, needle, m) ==
    LET ix == TextIndexes(d)
    IN  ix[m + Len(needle)] - ix[m + 1] = Len(needle) - 1

\* C9: for a tree whose segments have end - start equal to their text length,
\* when the requested occurrence lies in one segment or across contiguous
\* segments, the result starts at segment.start + (matchStart - the segment's
\* logical start), is as long as the needle, and the document's characters in
\* it are the needle; occurrence 2 of "Hello" in "Hello world. Hello again."
\* is the second "Hello".
C9_ExactMapping ==
    FindDone =>
        LET a == Appearances(DocText(doc), op.textToFind)
            k == op.instance
            r == ret.value
        IN  /\ (/\ SegmentsExact(loc.segments)
                /\ k <= Len(a)
                /\ Contiguous(doc, op.textToFind, a[k]))
               => LET i == SegmentOf(loc.segments, a[k])
                  IN  /\ r.found
                      /\ r.startIndex = loc.segments[i].start
                                        + (a[k] - LogicalStart(loc.segments, i))
                      /\ r.endIndex - r.startIndex = Len(op.textToFind)
                      /\ Chars(SubSeq(doc, r.startIndex + 1, r.endIndex))
                         = op.textToFind
            /\ (doc = HelloDoc /\ op.textToFind = HelloNeedle /\ k = 2)
               => r = Range(14, 19)

\* A second occurrence was returned whose characters lie in two segments.
C9_Witness ==
    /\ FindDone
    /\ op.instance = 2
    /\ ret.value.found
    /\ ret.value.endIndex - ret.value.startIndex = Len(op.textToFind)
    /\ \E i \in 1..Len(loc.segments) :
           /\ loc.segments[i].start <= ret.value.startIndex
           /\ ret.value.startIndex < loc.segments[i].end
           /\ loc.segments[i].end < ret.value.endIndex

ParaDone == pc = "done" /\ op.fn = "getParagraphRange"

\* The paragraph of document d that holds index x: from the index after the
\* previous newline or structural marker to the paragraph's newline.
ParagraphAround(d, x) ==
    LET before == {p \in 1..x : IsMark(d[p]) \/ d[p].c = NL}
        first  == IF before = {} THEN 0
                  ELSE CHOOSE p \in before : \A q \in before : q <= p
        after  == {p \in (x + 1)..Len(d) : d[p].c = NL}
        last   == CHOOSE p \in after : \A q \in after : p <= q
    IN  Range(first, last)

\* C10: getParagraphRange returns a range exactly when the offset lies in a
\* paragraph, at top level or in a table cell; the range is that paragraph's
\* and holds the offset; for an offset on a section break or on a table's
\* structural positions the result is null.
C10_ParagraphRange ==
    ParaDone =>
        LET x == op.indexWithin
            inParagraph == x < Len(doc) /\ ~IsMark(doc[x + 1])
        IN  /\ ret.value.found <=> inParagraph
            /\ ret.value.found =>
                   /\ ret.value = ParagraphAround(doc, x)
                   /\ ret.value.startIndex <= x
                   /\ x < ret.value.endIndex

\* The paragraph was found in a cell of a table nested in a table's cell.
C10_Witness ==
    /\ ParaDone
    /\ doc = NestedDoc
    /\ ret.value = Range(11, 14)

----------------------------------------------------------------------------
(* Claims about the multi-phase operations, under SpecOps *)

StartOffset(r) == IF r.type = "insertText" THEN r.index ELSE r.startIndex

AllOfType(reqs, type) == \A i \in 1..Len(reqs) : reqs[i].type = type

\* C1: every submitted batch that consists of two or more insertText
\* requests, or of two or more deleteContentRange requests, lists them by
\* strictly descending start offset.
C1_BatchesDescend ==
    (/\ pc \in BatchPcs
     /\ Len(pending) >= 2
     /\ (AllOfType(pending, "insertText") \/ AllOfType(pending, "deleteContentRange")))
    => \A i \in 1..(Len(pending) - 1) :
           StartOffset(pending[i]) > StartOffset(pending[i + 1])

\* The marker-delete batch of detectAndFormatLists with two deletes in flight.
C1_Witness ==
    /\ pc = "list_batch2"
    /\ Len(pending) >= 2
    /\ AllOfType(pending, "deleteContentRange")

\* The text that headers and rows intend for cell (r, c), both 0-based.
IntendedText(o, r, c) ==
    IF r = 0 THEN o.headers[c + 1]
    ELSE IF c < Len(o.rows[r]) THEN o.rows[r][c + 1]
    ELSE <<>>

\* The text a cell of the document holds: its paragraphs, newlines included.
CellTextOf(cell) ==
    Concat([p \in 1..Len(cell.content) |-> ParagraphText(cell.content[p].elements)])

\* The rows of the table that starts at index start in document d.
TableRowsAt(d, start) ==
    LET content == FetchDocument(d)
        at == {i \in 1..Len(content) :
                  content[i].kind = "table" /\ content[i].startIndex = start}
    IN  IF at = {} THEN <<>> ELSE content[CHOOSE i \in at : TRUE].tableRows

\* createTableWithData found the table it inserted and its text batch has
\* been applied.
FreshTableFilled ==
    /\ op.fn = "createTableWithData"
    /\ pc \in {"tbl_get2", "tbl_batch3", "done", "failed"}
    /\ loc.phase >= 2
    /\ loc.tableStartIndex = op.insertIndex + 1

IsBatch(entry) == entry.call = "batchUpdate"

\* The later batches rebuilt from a rendering of the document as it stands.
RebuiltBatch ==
    IF pc = "list_batch2"
    THEN OrderDeleteRequests(ListDeleteRequests(FetchForLists(doc, honour)))
    ELSE IF pc = "cell_batch2"
    THEN CellStyleRequests(
             getTableCellRangeIn(FetchForCells(doc, honour), op.tableStartIndex,
                                 op.rowIndex, op.columnIndex),
             op.textContent, op.textStyle, op.paragraphStyle)
    ELSE IF pc = "tbl_batch2"
    THEN LET content == FetchDocument(doc)
         IN  TableTextRequests(SortCellInsertions(CellInsertions(
                 content[FindInsertedTable(content, op.insertIndex)].tableRows, op)))
    ELSE TableBoldRequests(FetchDocument(doc), loc.tableStartIndex, op)

RECURSIVE EffectOf(_, _)
EffectOf(d, l) ==
    IF l = <<>> THEN d
    ELSE EffectOf(IF IsBatch(Head(l)) /\ Head(l).status = "ok"
                  THEN ApplyMutations(d, Head(l).requests).doc ELSE d,
                  Tail(l))

\* C4: a failed batchUpdate is the operation's last remote call (it is not
\* submitted again and nothing follows it), the operation has thrown, and the
\* document holds the effect of the batches that succeeded and nothing else.
C4_FailedBatchAborts ==
    \A i \in DOMAIN log :
        (IsBatch(log[i]) /\ log[i].status = "failed")
        => /\ i = Len(log)
           /\ pc = "failed"
           /\ ret.status = "threw"
           /\ doc = EffectOf(doc0, log)

\* A batch failed after an earlier batch of the operation had changed the
\* document.
C4_Witness ==
    /\ pc = "failed"
    /\ Len(log) >= 3
    /\ IsBatch(log[1]) /\ log[1].status = "ok"
    /\ IsBatch(Last(log)) /\ Last(log).status = "failed"
    /\ doc # doc0

----------------------------------------------------------------------------
(* Claims about getTableCellRange, under SpecSingle *)

\* The top-level tables of document d, by their position in body.content.
TablesOf(d) ==
    LET content == FetchDocument(d)
        at == {i \in 1..Len(content) : content[i].kind = "table"}
    IN  [i \in at |-> content[i]]

CellRangeDone == op.fn = "getTableCellRange" /\ pc \in {"done", "failed"}
                 /\ log[1].status = "ok"

\* The table the lookup is to select: the first within 10 of the anchor, or
\* failing that the first that starts at or after the anchor; none is <<>>.
TableToSelect(d, anchorOffset) ==
    LET tables == TablesOf(d)
        near   == {i \in DOMAIN tables :
                      /\ tables[i].startIndex - anchorOffset <= 10
                      /\ anchorOffset - tables[i].startIndex <= 10}
        after  == {i \in DOMAIN tables : tables[i].startIndex >= anchorOffset}
        first(S) == tables[CHOOSE i \in S : \A j \in S : i <= j]
    IN  IF near # {} THEN <<first(near)>>
        ELSE IF after # {} THEN <<first(after)>>
        ELSE <<>>

\* The cell at (rowIndex, columnIndex) of a table exists.
CellExists(table, rowIndex, columnIndex) ==
    /\ rowIndex >= 0 /\ rowIndex < Len(table.tableRows)
    /\ columnIndex >= 0
    /\ columnIndex < Len(table.tableRows[rowIndex + 1].tableCells)

\* C11: the lookup resolves the cell in the table within 10 of the anchor, or
\* failing that in the first table that starts at or after the anchor.
C11_WindowThenFirstAfter ==
    CellRangeDone =>
        \A k \in DOMAIN TableToSelect(doc, op.tableStartIndex) :
            LET table == TableToSelect(doc, op.tableStartIndex)[k]
            IN  CellExists(table, op.rowIndex, op.columnIndex)
                => /\ ret.status = "returned"
                   /\ ret.value.kind = "cell"
                   /\ ret.value.cellStartIndex
                          = table.tableRows[op.rowIndex + 1]
                                 .tableCells[op.columnIndex + 1].startIndex

\* The table getTableCellRange located: the first within 10 of the anchor.
LocatedTable(d, anchorOffset) ==
    LET tables == TablesOf(d)
        near   == {i \in DOMAIN tables :
                      /\ tables[i].startIndex - anchorOffset <= 10
                      /\ anchorOffset - tables[i].startIndex <= 10}
    IN  IF near = {} THEN <<>>
        ELSE <<tables[CHOOSE i \in near : \A j \in near : i <= j]>>

\* C12: with a table located, a row or column index out of bounds (negative,
\* or not below the number of rows, or of cells of the row) gives null: not a
\* cell range, not an error.
C12_OutOfBoundsIsNull ==
    CellRangeDone =>
        \A k \in DOMAIN LocatedTable(doc, op.tableStartIndex) :
            ~CellExists(LocatedTable(doc, op.tableStartIndex)[k],
                        op.rowIndex, op.columnIndex)
            => ret = Returned(NullCell)

\* A cell range was returned.
CellReturned ==
    /\ op.fn = "getTableCellRange"
    /\ pc = "done"
    /\ ret.value.kind = "cell"

\* Index of the token that ends the cell starting at index cellStart: the
\* next cell, the next row or the end of the table.
CellEndIn(d, cellStart) ==
    LET marks == {i \in (cellStart + 1)..(Len(d) - 1) : IsMark(d[i + 1])}
    IN  CHOOSE i \in marks : \A j \in marks : i <= j

\* C13 as stated: contentEndIndex is one less than the end of the cell's last
\* content element (the end of the cell), so that the content range leaves
\* the cell's last newline out, and the content range lies inside the cell's.
C13_ContentExcludesNewline ==
    CellReturned =>
        /\ ret.value.contentEndIndex
               = CellEndIn(doc, ret.value.cellStartIndex) - 1
        /\ ret.value.cellStartIndex <= ret.value.contentStartIndex
        /\ ret.value.contentStartIndex <= ret.value.contentEndIndex
        /\ ret.value.contentEndIndex <= ret.value.cellEndIndex

\* C13 amended: contentEndIndex is the end of the cell's last content
\* element, which is the end of the cell, so that the content range takes in
\* the cell's last newline; it starts right after the cell's own index and
\* lies inside the cell's range.
C13_ContentEndsWithCell ==
    CellReturned =>
        /\ ret.value.cellEndIndex = CellEndIn(doc, ret.value.cellStartIndex)
        /\ ret.value.contentEndIndex = ret.value.cellEndIndex
        /\ doc[ret.value.contentEndIndex].c = NL
        /\ ret.value.contentStartIndex = ret.value.cellStartIndex + 1
        /\ ret.value.contentStartIndex < ret.value.contentEndIndex

\* A cell of two paragraphs with text was returned.
C13_Witness ==
    /\ CellReturned
    /\ ret.value.hasContent
    /\ ret.value.contentEndIndex - ret.value.contentStartIndex >= 4

-----------------------------------------------------------------------------
(* Claims about the pure functions, under SpecPure *)

\* The text after its leading whitespace.
AfterLeadingWhitespace(t) ==
    IF \A i \in 1..Len(t) : t[i] \in {" ", NL, "\t"} THEN <<>>
    ELSE LET k == CHOOSE i \in 1..Len(t) :
                      /\ t[i] \notin {" ", NL, "\t"}
                      /\ \A j \in 1..(i - 1) : t[j] \in {" ", NL, "\t"}
         IN  SubSeq(t, k, Len(t))

\* t starts with m marker characters of the disc grammar and then whitespace.
DiscGrammar(t, m) ==
    m = 1 /\ Len(t) >= 2 /\ t[1] \in {"-", "*", "bullet"} /\ t[2] \in {" ", NL, "\t"}

DecimalGrammar(t, m) ==
    /\ m >= 2 /\ Len(t) >= m + 1
    /\ \A i \in 1..(m - 1) : t[i] \in Digits
    /\ t[m] \in {".", ")"}
    /\ t[m + 1] \in {" ", NL, "\t"}

AlphaGrammar(t, m) ==
    /\ m = 2 /\ Len(t) >= 3
    /\ t[1] \in Letters
    /\ t[2] \in {".", ")"}
    /\ t[3] \in {" ", NL, "\t"}

\* The length of the marker of m characters with all the whitespace after it.
WithTrailingWhitespace(t, m) ==
    CHOOSE n \in (m + 1)..Len(t) :
        /\ \A i \in (m + 1)..n : t[i] \in {" ", NL, "\t"}
        /\ n < Len(t) => t[n + 1] \notin {" ", NL, "\t"}

ExpectedListMatch(t) ==
    IF \E m \in 1..Len(t) : DiscGrammar(t, m)
    THEN [bulletPreset |-> "BULLET_DISC_CIRCLE_SQUARE",
          markerLength |-> WithTrailingWhitespace(t, 1)]
    ELSE IF \E m \in 1..Len(t) : DecimalGrammar(t, m)
    THEN [bulletPreset |-> "NUMBERED_DECIMAL_NESTED",
          markerLength |->
              WithTrailingWhitespace(t, CHOOSE m \in 1..Len(t) : DecimalGrammar(t, m))]
    ELSE IF \E m \in 1..Len(t) : AlphaGrammar(t, m)
    THEN [bulletPreset |-> "NUMBERED_UPPERALPHA_ALPHA_ROMAN",
          markerLength |-> WithTrailingWhitespace(t, 2)]
    ELSE [bulletPreset |-> "", markerLength |-> 0]

\* C14: every paragraph text, after its leading whitespace is trimmed, is
\* classified by the first grammar it matches, in the order disc glyph, digits
\* with '.' or ')', single letter with '.' or ')', each followed by whitespace,
\* and otherwise not at all; the recorded length is that of the marker with
\* its trailing whitespace.
C14_ClassifiedByFirstGrammar ==
    (op.fn = "classify" /\ pc = "done") =>
        ret = Returned(ExpectedListMatch(AfterLeadingWhitespace(op.paragraphText)))

\* "1. a" was classified as decimal with marker length 3.
C14_Witness ==
    /\ pc = "done"
    /\ op.fn = "classify"
    /\ op.paragraphText = <<"1", ".", " ", "a">>
    /\ ret = Returned([bulletPreset |-> "NUMBERED_DECIMAL_NESTED", markerLength |-> 3])

\* A style builder has been called and has finished.
StyleBuilt ==
    /\ op.fn \in {"buildUpdateTextStyleRequest", "buildUpdateParagraphStyleRequest"}
    /\ pc \in {"done", "failed"}

\* The field-mask entry that stands for a defined option.
MaskEntryFor(option) ==
    CASE option = "fontFamily" -> "weightedFontFamily"
      [] option = "linkUrl"    -> "link"
      [] OTHER                 -> option

\* The one request over the given range whose mask has an entry for each
\* defined option and no other.
RequestForDefinedOptions ==
    LET mask == {MaskEntryFor(o) : o \in op.style.options}
    IN  IF op.fn = "buildUpdateTextStyleRequest"
        THEN [type |-> "updateTextStyle", startIndex |-> op.range[1],
              endIndex |-> op.range[2], fields |-> mask]
        ELSE [type |-> "updateParagraphStyle", startIndex |-> op.range[1],
              endIndex |-> op.range[2], fields |-> mask]

NullIffNoOption ==
    IF op.style.options = {}
    THEN ret = Returned(<<>>)
    ELSE ret = Returned(<<RequestForDefinedOptions>>)

\* C16 as stated: the style builders return no request exactly when no option
\* is defined, and otherwise one request over [startIndex, endIndex) whose
\* field mask lists exactly the defined options.
C16_NullIffNoOption == StyleBuilt => NullIffNoOption

\* C16, amended: the same, except that buildUpdateTextStyleRequest throws a
\* UserError when a defined colour option is not a hex colour.
C16_NullIffNoOptionOrBadColor ==
    StyleBuilt =>
        IF op.style.invalid # {}
        THEN ret.status = "threw" /\ ret.class = "UserError"
        ELSE NullIffNoOption

\* A text style with bold, a font family and a link gave one request.
C16_Witness ==
    /\ pc = "done"
    /\ op.fn = "buildUpdateTextStyleRequest"
    /\ op.style.options = {"bold", "fontFamily", "linkUrl"}
    /\ Len(ret.value) = 1
    /\ ret.value[1].fields = {"bold", "weightedFontFamily", "link"}

-----------------------------------------------------------------------------
(* Claims about the phases of detectAndFormatLists, under SpecOps *)

\* Phase 2 of detectAndFormatLists has read the document again.
ListPhase2Built ==
    /\ op.fn = "detectAndFormatLists"
    /\ Len(log) >= 3
    /\ log[3].status = "ok"

\* The bullet requests phase 1 submitted and the deletes phase 2 built.
BulletsSubmitted == log[2].requests

DeletesBuilt == IF Len(log) >= 4 THEN log[4].requests ELSE <<>>

\* The deletes that start inside the paragraph of a bullet request.
DeletesIn(bulletRequest) ==
    {j \in 1..Len(DeletesBuilt) :
        /\ bulletRequest.startIndex <= DeletesBuilt[j].startIndex
        /\ DeletesBuilt[j].startIndex < bulletRequest.endIndex}

\* C15: phase 2 builds exactly one marker delete for each paragraph that got a
\* bullet request in phase 1, and none for any other paragraph.
C15_DeletesMatchBullets ==
    ListPhase2Built =>
        /\ \A i \in 1..Len(BulletsSubmitted) :
               Cardinality(DeletesIn(BulletsSubmitted[i])) = 1
        /\ \A j \in 1..Len(DeletesBuilt) :
               \E i \in 1..Len(BulletsSubmitted) : j \in DeletesIn(BulletsSubmitted[i])

\* The same, when the service answers with more than the fields mask asks for.
C15_DeletesMatchBulletsUnmasked == honour \/ C15_DeletesMatchBullets

-----------------------------------------------------------------------------
(* Claims about the remote calls of an operation, under SpecOps *)

\* The texts of the top-level paragraphs of document d.
TopLevelParagraphTexts(d) ==
    LET content == FetchDocument(d)
    IN  {ParagraphText(content[i].elements) :
            i \in {j \in 1..Len(content) : content[j].kind = "para"}}

\* No top-level paragraph of the document starts with a list marker.
MarkerFree(d) ==
    \A t \in TopLevelParagraphTexts(d) :
        ExpectedListMatch(AfterLeadingWhitespace(t)).bulletPreset = ""

ListsWithoutMarkers == op.fn = "detectAndFormatLists" /\ MarkerFree(doc0)

EmptyEffectiveInput ==
    \/ ListsWithoutMarkers
    \/ op.fn = "createTableWithData" /\ op.headers = <<>>
    \/ op.fn = "insertText" /\ op.text = <<>>
    \/ op.fn = "executeBatchUpdate" /\ op.requests = <<>>

\* C17 as stated: an operation invoked with an empty effective input issues
\* neither a FetchDocument nor an ApplyMutations call.
C17_EmptyInputNoCalls == EmptyEffectiveInput => log = <<>>

\* C17, amended: with an empty effective input no operation issues an
\* ApplyMutations call, and only detectAndFormatLists issues a FetchDocument
\* call, the one it needs to see that there is no marker.
C17_EmptyInputNoWrites ==
    EmptyEffectiveInput =>
        IF ListsWithoutMarkers
        THEN Len(log) = 1 /\ log[1].call = "get"
        ELSE log = <<>>

\* detectAndFormatLists finished on a document without markers after its one
\* read, with nothing to do.
C17_Witness ==
    /\ ListsWithoutMarkers
    /\ pc = "done"
    /\ ret = Returned(Reply(0))
    /\ Len(log) = 1
    /\ log[1].call = "get"
    /\ log[1].status = "ok"

\* The remote calls of the operation that failed on their way.
TransportFailed == {i \in 1..Len(log) : log[i].status = "failed"
                                         /\ log[i].kind \in TransportFailures}

\* C18: when a remote call fails with NotFound, PermissionDenied or Transient,
\* the operation that made it fails with an error of the same kind, and a
\* NotFound or PermissionDenied never reaches the caller as a generic error.
C18_FailureKindCarried ==
    \A i \in TransportFailed :
        /\ ret.status = "threw"
        /\ ret.kind = log[i].kind
        /\ log[i].kind \in {"NotFound", "PermissionDenied"} => ret.class # "Error"

-----------------------------------------------------------------------------
(* Claims about the stubbed helpers, under SpecSingle *)

StubCalled == op.fn \in {"findParagraphsMatchingStyle", "addCommentHelper"}

\* C19: findParagraphsMatchingStyle and addCommentHelper fail with a
\* not-implemented error on every call, for every input, without a remote
\* call and without ever returning a result.
C19_StubsFailLoudly ==
    StubCalled =>
        /\ pc = "failed"
        /\ ret.status = "threw"
        /\ ret.class = "NotImplementedError"
        /\ log = <<>>

\* addCommentHelper was called with a text and a range and has thrown.
C19_Witness ==
    /\ op.fn = "addCommentHelper"
    /\ op.text = <<"x">>
    /\ op.startIndex = 0
    /\ op.endIndex = 2
    /\ ret = Threw("NotImplementedError", "Unimplemented", "addCommentHelper")
    /\ log = <<>>

-----------------------------------------------------------------------------
(* Claims about the multi-phase operations, under SpecShared *)

\* The operation has returned right after the documents.get of its last
\* phase, which found no table in the document at all: the cell of
\* editTableCell, or the table of createTableWithData, was not re-located.
ReLocationFailed ==
    /\ op.fn \in {"editTableCell", "createTableWithData"}
    /\ pc \in {"done", "failed"}
    /\ Len(log) >= 3
    /\ log[Len(log)].call = "get"
    /\ log[Len(log)].status = "ok"
    /\ ~HasTable(doc)

ReportsSuccess == ret.status = "returned" /\ ret.value.success

\* C20: no multi-phase operation reports success when the resolution inside
\* one of its phases failed.
C20_NoSuccessAfterFailedResolution == ReLocationFailed => ~ReportsSuccess

-----------------------------------------------------------------------------
(* Claims about the sequence of remote calls, under SpecOps *)

\* The remote calls that have been issued and not answered yet.
Outstanding == {i \in 1..Len(log) : log[i].status = "open"}

\* C21: within one operation at most one remote call is outstanding at any
\* time; a call is issued only after every earlier one has completed.
C21_OneCallOutstanding ==
    /\ Cardinality(Outstanding) <= 1
    /\ \A i \in Outstanding : i = Len(log)

\* createTableWithData awaits its fifth call, the four before it answered.
C21_Witness ==
    /\ op.fn = "createTableWithData"
    /\ pc = "tbl_batch3"
    /\ Len(log) = 5
    /\ Outstanding = {5}
    /\ \A i \in 1..4 : log[i].status = "ok"

\* The one batch of one request that has been submitted.
OneBatchOfOne ==
    /\ Len(log) = 1
    /\ log[1].call = "batchUpdate"
    /\ Len(log[1].requests) = 1

FailedBeforeAnyCall ==
    /\ pc = "failed"
    /\ ret.status = "threw"
    /\ ret.class = "UserError"
    /\ log = <<>>

\* The URL has no scheme in front of a colon.
Malformed(u) ==
    ~ \E k \in 2..Len(u) :
          /\ u[k] = ":"
          /\ \A j \in 1..(k - 1) : u[j] \in Letters \cup (IF j = 1 THEN {} ELSE {"1", "+", "-", "."})

\* C22: createTable with rows < 1 or columns < 1 and insertInlineImage with a
\* malformed URL fail with a user error before any remote call; with valid
\* arguments each submits exactly one batch of exactly one request.
C22_ValidatedThenOneRequest ==
    /\ op.fn = "createTable" =>
           IF op.rows < 1 \/ op.columns < 1
           THEN FailedBeforeAnyCall
           ELSE /\ OneBatchOfOne
                /\ log[1].requests[1] =
                       [type |-> "insertTable", index |-> op.index,
                        rows |-> op.rows, columns |-> op.columns]
    /\ op.fn = "insertInlineImage" =>
           IF Malformed(op.imageUrl)
           THEN FailedBeforeAnyCall
           ELSE /\ OneBatchOfOne
                /\ log[1].requests[1].type = "insertInlineImage"
                /\ log[1].requests[1].index = op.index
                /\ log[1].requests[1].uri = op.imageUrl

\* createTable for a 2 x 1 table has had its one batch of one request applied.
C22_Witness ==
    /\ op.fn = "createTable"
    /\ op.rows = 2
    /\ op.columns = 1
    /\ pc = "done"
    /\ OneBatchOfOne
    /\ log[1].status = "ok"

-----------------------------------------------------------------------------
(* Claims about the text batch of editTableCell, under SpecCells *)

\* editTableCell was given a non-empty text and its first batch was applied.
TextBatchApplied ==
    /\ op.fn = "editTableCell"
    /\ op.textContent.given
    /\ op.textContent.value # <<>>
    /\ Len(log) >= 2
    /\ log[2].call = "batchUpdate"
    /\ log[2].status = "ok"

\* The target cell in the document the operation started on.
TargetCell ==
    LET tables == TablesOf(doc0)
        first  == CHOOSE i \in DOMAIN tables : \A j \in DOMAIN tables : i <= j
    IN  tables[first].tableRows[op.rowIndex + 1].tableCells[op.columnIndex + 1]

\* The document with the target cell holding newText and one newline, and
\* everything outside the cell as it was.
OnlyCellReplaced ==
    SubSeq(Chars(doc0), 1, TargetCell.startIndex + 1)
        \o op.textContent.value \o <<NL>>
        \o SubSeq(Chars(doc0), TargetCell.endIndex + 1, Len(doc0))

\* C23: whatever the target cell held before (nothing, whitespace, one
\* paragraph, several), once the text batch of editTableCell has been applied
\* the cell's text is newText followed by the one structural newline, and
\* nothing outside the cell has changed.
C23_CellHoldsNewText == TextBatchApplied => Chars(doc) = OnlyCellReplaced

\* The same for the cells that were not whitespace-only.
C23_CellHoldsNewTextUnlessBlank ==
    (TextBatchApplied /\ ~(op.rowIndex = 0 /\ op.columnIndex = 1)) =>
        Chars(doc) = OnlyCellReplaced

-----------------------------------------------------------------------------
(* Claims about phase 1 of detectAndFormatLists, under SpecOps *)

\* Every paragraph of document d, nested or not: its range and its text.
AllParagraphs(d) ==
    {[startIndex |-> ParagraphStartOf(d, q), endIndex |-> q,
      text |-> Chars(SubSeq(d, ParagraphStartOf(d, q) + 1, q))] :
        q \in {p \in 1..Len(d) : d[p].c = NL}}

OverlapsFilter(para) ==
    /\ op.startIndex # Undef => para.endIndex > op.startIndex
    /\ op.endIndex # Undef => para.startIndex < op.endIndex

\* The bullet requests due: one for each paragraph in the filter whose text
\* matches a marker grammar.
BulletRequestsDue ==
    {[type |-> "createParagraphBullets", startIndex |-> para.startIndex,
      endIndex |-> para.endIndex,
      bulletPreset |-> ExpectedListMatch(AfterLeadingWhitespace(para.text)).bulletPreset] :
        para \in {x \in AllParagraphs(doc0) :
                     /\ OverlapsFilter(x)
                     /\ ExpectedListMatch(AfterLeadingWhitespace(x.text)).bulletPreset # ""}}

Phase1Built ==
    /\ op.fn = "detectAndFormatLists"
    /\ Len(log) >= 1
    /\ log[1].status = "ok"

Phase1Batch == IF Len(log) >= 2 THEN log[2].requests ELSE <<>>

\* C24: phase 1 submits, in one batch, one bullet request covering
\* [start, end) for each paragraph of the tree, nested in a table cell or not,
\* that overlaps the range filter and matches a marker grammar.
C24_BulletsForEveryParagraph ==
    Phase1Built =>
        /\ Elements(Phase1Batch) = BulletRequestsDue
        /\ Len(Phase1Batch) = Cardinality(BulletRequestsDue)

\* The same on the documents that have no table.
C24_BulletsForTopLevelParagraphs ==
    (Phase1Built /\ ~HasTable(doc0)) =>
        /\ Elements(Phase1Batch) = BulletRequestsDue
        /\ Len(Phase1Batch) = Cardinality(BulletRequestsDue)

-----------------------------------------------------------------------------
(* Claims about the table chosen by createTableWithData, under SpecOps *)

\* createTableWithData has chosen a table in the re-fetched tree.
TableChosen == op.fn = "createTableWithData" /\ loc.phase >= 1

\* Where the table inserted at insertIndex starts: after the newline that the
\* insertion puts in front of it.
InsertedTableStart == op.insertIndex + 1

\* C25: the table createTableWithData populates, and whose start it returns
\* as tableStartIndex, is the one its own first phase inserted, whatever
\* tables the document held before.
C25_ChoosesInsertedTable ==
    TableChosen =>
        /\ loc.tableStartIndex = InsertedTableStart
        /\ (pc = "done" => ret.value.tableStartIndex = InsertedTableStart)

\* The same when no older table starts in the five indexes before insertIndex.
C25_ChoosesInsertedTableUnlessNear ==
    (TableChosen /\ ~ \E i \in DOMAIN TablesOf(doc0) :
                         /\ TablesOf(doc0)[i].startIndex >= op.insertIndex - 5
                         /\ TablesOf(doc0)[i].startIndex < op.insertIndex) =>
        /\ loc.tableStartIndex = InsertedTableStart
        /\ (pc = "done" => ret.value.tableStartIndex = InsertedTableStart)

-----------------------------------------------------------------------------
(* Claims about the two table finders, under SpecTables *)

\* The tables of the document that start exactly at the anchor.
ExactTables ==
    {i \in DOMAIN TablesOf(doc) : TablesOf(doc)[i].startIndex = op.tableStartIndex}

FindTableDone == op.fn = "findTableAtIndex" /\ pc = "done"

\* findTableAtIndex returns the table that starts exactly at the anchor.
ExactByFindTableAtIndex ==
    (FindTableDone /\ ExactTables # {}) =>
        /\ ret.value.kind = "table"
        /\ ret.value.startIndex = op.tableStartIndex

\* A cell returned by getTableCellRange lies in the table that starts exactly
\* at the anchor.
ExactByGetTableCellRange ==
    (CellReturned /\ ExactTables # {}) =>
        \A i \in ExactTables :
            /\ ret.value.cellStartIndex > TablesOf(doc)[i].startIndex
            /\ ret.value.cellEndIndex < TablesOf(doc)[i].endIndex

\* Where both find a table on the fetched tree, it is the same one.
SameTableWhenBothFind ==
    (FindTableDone /\ ret.value.kind = "table"
        /\ FindTargetTable(tree, op.tableStartIndex) # 0) =>
        tree[FindTargetTable(tree, op.tableStartIndex)].startIndex
            = ret.value.startIndex

\* C26: when a table starts exactly at the anchor, findTableAtIndex and
\* getTableCellRange both select it, also when another table starts within 10
\* before it; and whenever both find a table they find the same one.
C26_ExactTableAndSameTable ==
    /\ ExactByFindTableAtIndex
    /\ ExactByGetTableCellRange
    /\ SameTableWhenBothFind

-----------------------------------------------------------------------------
(* Claims about getAllTabs, under SpecPure *)

TabsListed == op.fn = "getAllTabs" /\ pc = "done"

\* C27: getAllTabs returns every tab of the tab tree exactly once, a parent
\* before its children and siblings in their order, each with its nesting
\* depth as level (0 at the top); without tabs it returns the empty list.
C27_TabsInPreOrderWithDepth ==
    TabsListed =>
        /\ ret.status = "returned"
        /\ Len(ret.value) = Len(op.levels)
        /\ \A i \in 1..Len(op.levels) :
               /\ ret.value[i].id = i
               /\ ret.value[i].level = op.levels[i]

\* A tree of four tabs three levels deep, with a second top-level tab after
\* the nested ones, was listed.
C27_Witness ==
    /\ TabsListed
    /\ op.levels = <<0, 1, 2, 0>>
    /\ Len(op.document.tabs.value) = 2
    /\ Len(ret.value) = 4
    /\ ret.value[3].level = 2
    /\ ret.value[4].level = 0


-----------------------------------------------------------------------------
(* C28 *)

SearchTextLength == Len(FullText(loc.segments))

StartsAdvance ==
    \A i \in 1..Len(loc.starts) - 1 : loc.starts[i + 1] > loc.starts[i]

\* C28: when findTextRange has returned, its search loop made at most
\* (length of the document's text + 1) iterations, each strictly further
\* along the text than the one before, and the result is a range or null.
C28_SearchLoopBounded ==
    (FindDone /\ ret.status = "returned") =>
        /\ StartsAdvance
        /\ loc.iters <= SearchTextLength + 1
        /\ (ret.value.found \/ ret.value = NoRange)

\* A search that needed several iterations to reach a later occurrence.
C28_Witness ==
    /\ FindDone
    /\ ret.status = "returned"
    /\ ret.value.found
    /\ loc.iters >= 3


-----------------------------------------------------------------------------
(* C29 *)

StyledWithoutText ==
    /\ op.fn = "editTableCell"
    /\ op.textStyle.given \/ op.paragraphStyle.given
    /\ ~Truthy(op.textContent)

IsStyleRequest(r) == r.type \in {"updateTextStyle", "updateParagraphStyle"}

StyleRequestIssued ==
    \E i \in 1..Len(log) : \E k \in 1..Len(log[i].requests) :
        IsStyleRequest(log[i].requests[k])

\* Every token of the document is a token of the initial document with the
\* attributes it had there: at most one slice of the initial document is gone.
StylingKept ==
    \E i \in 0..Len(doc0) : \E j \in i..Len(doc0) :
        doc = SubSeq(doc0, 1, i) \o SubSeq(doc0, j + 1, Len(doc0))

-----------------------------------------------------------------------------
(* C30 *)

\* The delete batch of phase 2 is submitted and not yet answered: the
\* document is the one phase 2 read.
DeleteBatchSubmitted ==
    /\ op.fn = "detectAndFormatLists"
    /\ pc = "list_batch2"

\* The delete request lies inside one paragraph and leaves its newline.
InsideOwnParagraph(request) ==
    \E para \in AllParagraphs(doc) :
        /\ request.startIndex >= para.startIndex
        /\ request.endIndex <= para.endIndex - 1

NewlineCount(d) == Cardinality({p \in 1..Len(d) : d[p].c = NL})

\* The delete batch was applied and the call returned.
DeleteBatchApplied ==
    /\ op.fn = "detectAndFormatLists"
    /\ pc = "done"
    /\ Len(log) >= 4
    /\ log[4].status = "ok"

\* Every delete of the submitted batch stays inside a paragraph.
DeletesInsideParagraphs ==
    DeleteBatchSubmitted =>
        \A k \in 1..Len(pending) : InsideOwnParagraph(pending[k])

\* An applied delete batch leaves as many paragraphs as there were.
ParagraphsKept == DeleteBatchApplied => NewlineCount(doc) = NewlineCount(doc0)

\* C30: every marker delete that phase 2 of detectAndFormatLists submits lies
\* inside one paragraph and ends before that paragraph's newline, and an
\* applied delete batch leaves the document with as many paragraphs as before.
C30_DeletesStayInsideParagraph == DeletesInsideParagraphs /\ ParagraphsKept

====
